---- MODULE Spec2Model ----
(***************************************************************************)
(* Model of the travel-rendezvous puzzle generator                         *)
(* (scripts/generate_airport2.py) and of its brute-force solver            *)
(* (scripts/analyze_puzzle_solutions.py).                                  *)
(*                                                                         *)
(* Conventions.                                                            *)
(*  - A date "2025-07-DD" is the integer DD (all dates of the program lie  *)
(*    in July 2025).                                                       *)
(*  - A price is an integer number of cents (the program rounds prices to  *)
(*    2 decimals); a budget of 700 is 70000.                               *)
(*  - A flight is the record [id, origin, destination, price, date,        *)
(*    airline] where airline is the airline code. The fields duration,     *)
(*    distance_km and the airline's name/continent are carried by the      *)
(*    program but read by no predicate of the guard or of the solver; they *)
(*    are not part of the record.                                          *)
(*  - The reference tables (airports, airlines) are the rows of the        *)
(*    program's tables that the puzzle touches, in the program's order.    *)
(*  - random.uniform(a, b) is a choice between the two end points a and b; *)
(*    random.choice / random.sample / random.randint are choices over the  *)
(*    program's own candidates. Every draw has a reference outcome; a run  *)
(*    may depart from the reference outcome in at most MaxVaried draws.    *)
(***************************************************************************)
EXTENDS Integers, Sequences, FiniteSets, TLC

(***************************************************************************)
(* Bounds of the model.                                                    *)
(***************************************************************************)
\* number of random draws of one run that may leave their reference outcome
MaxVaried == 1
\* random.randint(20, 25) flights per interest route, scaled down to
\* NumFlightsMin .. NumFlightsMin + 1
NumFlightsMin == 2
\* max_attempts of the two rejection loops (50 and 30 in the program), scaled down
InterestMaxAttempts == 2
FillerMaxAttempts == 1
\* number of filler flights wanted after the smallest solution + interest catalog
\* (target_total is 5000 in the program)
FillerSlack == 2
\* length of the catalogs / accepted lists given to the solver and to the guard
MaxCatalog == 2
MaxExisting == 1
\* length of the solution lists given to analyze_solutions
MaxSolutions == 2
\* the per-route cap of the filler loop ("existing_count >= 5" in the program)
RouteCap == 1

NumFlightsMax == NumFlightsMin + 1

(***************************************************************************)
(* Reference data.                                                         *)
(***************************************************************************)
\* the dollars -> cents factor
Cents == 100

airports == << "FCO", "ARN", "SIN", "BKK", "DEL" >>

airlines == << "AA", "LH", "SQ", "EK" >>

ASIAN_AIRPORTS == << "SIN", "BKK", "DEL" >>

\* POINTS_OF_INTEREST = {"FCO": ASIAN_AIRPORTS}, flattened in iteration order
POINTS_OF_INTEREST == [i \in 1..Len(ASIAN_AIRPORTS) |->
                          [origin |-> "FCO", destination |-> ASIAN_AIRPORTS[i]]]

PUZZLE_CONFIG ==
  [ friend_a |-> [ origin |-> "FCO",
                   available_dates |-> 15..19,
                   preferred_airlines |-> {"LH", "SQ"},
                   max_budget |-> 700 * Cents ],
    friend_b |-> [ origin |-> "FCO",
                   available_dates |-> 17..21,
                   preferred_airlines |-> {"EK", "SQ"},
                   max_budget |-> 810 * Cents ],
    solution_destinations |-> << [airport |-> "SIN", date |-> 17],
                                 [airport |-> "BKK", date |-> 18],
                                 [airport |-> "DEL", date |-> 19] >> ]

puzzle_description ==
  [ user_1 |-> [ origin_airport |-> "FCO",
                 available_dates |-> 15..19,
                 preferred_airlines |-> {"LH", "SQ"},
                 max_budget |-> 700 * Cents ],
    user_2 |-> [ origin_airport |-> "FCO",
                 available_dates |-> 17..21,
                 preferred_airlines |-> {"EK", "SQ"},
                 max_budget |-> 810 * Cents ] ]

(***************************************************************************)
(* Small helpers on sequences and sets.                                    *)
(***************************************************************************)
Range(s) == { s[i] : i \in 1..Len(s) }

Max2(a, b) == IF a >= b THEN a ELSE b

Min2(a, b) == IF a <= b THEN a ELSE b

\* the cost of a draw: 0 for the reference outcome, 1 for any other
Cost(x, ref) == IF x = ref THEN 0 ELSE 1

(***************************************************************************)
(* Geometry and pricing.                                                   *)
(***************************************************************************)
\* calculate_distance on the rows of airports, in whole kilometres
calculate_distance(a, b) ==
  LET pair == {a, b} IN
  CASE pair = {"FCO", "ARN"} -> 1962
    [] pair = {"FCO", "SIN"} -> 10049
    [] pair = {"FCO", "BKK"} -> 8866
    [] pair = {"FCO", "DEL"} -> 5925
    [] pair = {"ARN", "SIN"} -> 9656
    [] pair = {"ARN", "BKK"} -> 8296
    [] pair = {"ARN", "DEL"} -> 5584
    [] pair = {"SIN", "BKK"} -> 1416
    [] pair = {"SIN", "DEL"} -> 4158
    [] pair = {"BKK", "DEL"} -> 2948
    [] OTHER -> 0

\* random.uniform(-0.15, 0.15) of calculate_flight_time, in percent
FlightTimeDeviation == { -15, 15 }

\* airport_dict: Latitude and Longitude of an airport by IATA code, in fifths of a
\* degree; the airports of the table above, one of the southern and western
\* hemispheres (GRU) and one west of Greenwich (LIS)
airport_dict ==
  [ FCO |-> [Latitude |-> 212, Longitude |-> 61],
    ARN |-> [Latitude |-> 298, Longitude |-> 90],
    SIN |-> [Latitude |-> 7, Longitude |-> 520],
    BKK |-> [Latitude |-> 68, Longitude |-> 504],
    DEL |-> [Latitude |-> 143, Longitude |-> 386],
    GRU |-> [Latitude |-> -117, Longitude |-> -232],
    LIS |-> [Latitude |-> 194, Longitude |-> -46] ]

\* math.sin of an angle given in tenths of a degree, in thousandths: Bhaskara's
\* rational approximation 4x(180 - x) / (40500 - x(180 - x)) on [0, 180] degrees,
\* continued as an odd function
Sin(angle) ==
  LET u == IF angle < 0 THEN -angle ELSE angle
      p == u * (1800 - u)
      s == (400 * p) \div ((4050000 - p) \div 10)
  IN  IF angle < 0 THEN -s ELSE s

\* math.cos of an angle in [-90, 90] degrees, given in tenths of a degree
Cos(angle) == Sin(900 - angle)

\* math.sqrt of a value in millionths, in thousandths
Sqrt(a) == CHOOSE r \in 0..1500 : r * r <= a /\ a < (r + 1) * (r + 1)

\* math.asin of a value in thousandths, in tenths of a degree
Asin(x) == CHOOSE u \in 0..900 : Sin(u) <= x /\ (u = 900 \/ Sin(u + 1) > x)

\* variant: the cosine of the first latitude is taken twice
haversine_OneLatitude(lat1, lon1, lat2, lon2) ==
  LET dlat == lat2 - lat1
      dlon == lon2 - lon1
      a == Sin(dlat) * Sin(dlat)
             + (((Cos(2 * lat1) * Cos(2 * lat1)) \div 1000) * (Sin(dlon) * Sin(dlon)))
                 \div 1000
      c == 2 * Asin(Sqrt(a))
  IN  (c * 11119) \div 1000

\* calculate_distance(lat1, lon1, lat2, lon2), the haversine formula, for
\* coordinates in fifths of a degree, in km: dlat / 2 and dlon / 2 are then in
\* tenths of a degree, c is in tenths of a degree and c * r is c * 6371 * pi / 1800
haversine(lat1, lon1, lat2, lon2) ==
  LET dlat == lat2 - lat1
      dlon == lon2 - lon1
      a == Sin(dlat) * Sin(dlat)
             + (((Cos(2 * lat1) * Cos(2 * lat2)) \div 1000) * (Sin(dlon) * Sin(dlon)))
                 \div 1000
      c == 2 * Asin(Sqrt(a))
  IN  (c * 11119) \div 1000

\* calculate_flight_time, in tenths of an hour, for a deviation in percent
calculate_flight_time(distance_km, deviation) ==
  LET base_speed == IF distance_km > 2000 THEN 800 ELSE 600
      num == distance_km * 10 * (100 + deviation)
      den == base_speed * 100
  IN  Max2(10, (2 * num + den) \div (2 * den))

\* random.uniform(-0.15, 0.20) of calculate_flight_price, in percent
PriceVariation == { -15, 20 }

\* random.uniform(550, 680) of the solution pricing path, in cents
SolutionPrice == { 550 * Cents, 680 * Cents }

\* variant: the non-solution price without the cap at 2000
calculate_flight_price_NoCap(distance_km, flight_time, variation) ==
  LET base_price == (distance_km * 15 * (10000 - Min2(5000, distance_km))) \div 10000
      timed == (base_price * (120 + flight_time)) \div 120
      varied_price == (timed * (100 + variation)) \div 100
      final_price == IF distance_km > 5000
                       THEN (varied_price * (2000 - Min2(500, (distance_km - 5000) \div 10)))
                               \div 2000
                       ELSE varied_price
      min_price == Max2(150 * Cents, distance_km * 8)
  IN  Max2(min_price, final_price)

\* calculate_flight_price with is_solution=False, in cents
calculate_flight_price(distance_km, flight_time, variation) ==
  LET base_price == (distance_km * 15 * (10000 - Min2(5000, distance_km))) \div 10000
      timed == (base_price * (120 + flight_time)) \div 120
      varied_price == (timed * (100 + variation)) \div 100
      final_price == IF distance_km > 5000
                       THEN (varied_price * (2000 - Min2(500, (distance_km - 5000) \div 10)))
                               \div 2000
                       ELSE varied_price
      min_price == Max2(150 * Cents, distance_km * 8)
  IN  Max2(min_price, Min2(2000 * Cents, final_price))

\* calculate_flight_price with its is_solution flag: the solution path returns
\* its own draw from random.uniform(550, 680), whatever the price computed so far
calculate_flight_price_with_flag(distance_km, flight_time, is_solution, variation, solution_draw) ==
  IF is_solution
    THEN solution_draw
    ELSE calculate_flight_price(distance_km, flight_time, variation)

\* get_airline_for_route without force_airline: the candidates of random.choice
get_airline_for_route(origin, destination) ==
  IF origin = "FCO" /\ destination \in Range(ASIAN_AIRPORTS)
    THEN { a \in Range(airlines) : a \in {"SQ", "LH", "EK"} }
    ELSE Range(airlines)

\* variant: the fallback airline is drawn from the whole airlines table
FallbackAirlines_All == Range(airlines)

\* the candidates of the fallback's random.choice
FallbackAirlines == { a \in Range(airlines) : a \notin {"SQ", "LH", "EK"} }

(***************************************************************************)
(* The unintended-solution guard.                                          *)
(***************************************************************************)
\* variant: the first branch tests the accepted flight against friend_a's budget
GuardBranchA_WrongBudget(destination, date, price, airline_code, existing_flights) ==
  LET config == PUZZLE_CONFIG IN
  /\ date \in config.friend_a.available_dates
  /\ price <= config.friend_a.max_budget
  /\ airline_code \in config.friend_a.preferred_airlines
  /\ \E i \in 1..Len(existing_flights) :
        LET flight == existing_flights[i] IN
        /\ flight.origin = config.friend_b.origin
        /\ flight.destination = destination
        /\ flight.date = date
        /\ flight.price <= config.friend_a.max_budget
        /\ flight.airline \in config.friend_b.preferred_airlines
        /\ date \in config.friend_b.available_dates

\* variant: the guard never finds a friend_b partner among the accepted flights
GuardBranchA_Never(destination, date, price, airline_code, existing_flights) ==
  FALSE

\* the candidate fits friend_a and an accepted flight completes the pair as friend_b
GuardBranchA(destination, date, price, airline_code, existing_flights) ==
  LET config == PUZZLE_CONFIG IN
  /\ date \in config.friend_a.available_dates
  /\ price <= config.friend_a.max_budget
  /\ airline_code \in config.friend_a.preferred_airlines
  /\ \E i \in 1..Len(existing_flights) :
        LET flight == existing_flights[i] IN
        /\ flight.origin = config.friend_b.origin
        /\ flight.destination = destination
        /\ flight.date = date
        /\ flight.price <= config.friend_b.max_budget
        /\ flight.airline \in config.friend_b.preferred_airlines
        /\ date \in config.friend_b.available_dates

\* variant: the guard without its second branch
GuardBranchB_Never(destination, date, price, airline_code, existing_flights) ==
  FALSE

\* the candidate fits friend_b and an accepted flight completes the pair as friend_a
GuardBranchB(destination, date, price, airline_code, existing_flights) ==
  LET config == PUZZLE_CONFIG IN
  /\ date \in config.friend_b.available_dates
  /\ price <= config.friend_b.max_budget
  /\ airline_code \in config.friend_b.preferred_airlines
  /\ \E i \in 1..Len(existing_flights) :
        LET flight == existing_flights[i] IN
        /\ flight.origin = config.friend_a.origin
        /\ flight.destination = destination
        /\ flight.date = date
        /\ flight.price <= config.friend_a.max_budget
        /\ flight.airline \in config.friend_a.preferred_airlines
        /\ date \in config.friend_a.available_dates

\* variant: the overlap test without the common-airline condition
GuardOverlap_NoAirline(date, price, airline_code) ==
  LET config == PUZZLE_CONFIG
      overlap_dates == config.friend_a.available_dates \cap config.friend_b.available_dates
  IN  /\ date \in overlap_dates
      /\ price <= config.friend_a.max_budget
      /\ price <= config.friend_b.max_budget

\* the candidate alone lies in both friends' overlap
GuardOverlap(date, price, airline_code) ==
  LET config == PUZZLE_CONFIG
      overlap_dates == config.friend_a.available_dates \cap config.friend_b.available_dates
      common_airlines == config.friend_a.preferred_airlines
                            \cap config.friend_b.preferred_airlines
  IN  /\ date \in overlap_dates
      /\ airline_code \in common_airlines
      /\ price <= config.friend_a.max_budget
      /\ price <= config.friend_b.max_budget

\* variant: the guard without the test of the candidate's origin
would_create_unintended_solution_AnyOrigin(origin, destination, date, price, airline_code, existing_flights) ==
  \/ GuardBranchA(destination, date, price, airline_code, existing_flights)
  \/ GuardBranchB(destination, date, price, airline_code, existing_flights)
  \/ GuardOverlap(date, price, airline_code)

\* variant: the guard without its first branch
would_create_unintended_solution_NoBranchA(origin, destination, date, price, airline_code, existing_flights) ==
  IF origin # "FCO"
    THEN FALSE
    ELSE \/ GuardBranchB(destination, date, price, airline_code, existing_flights)
         \/ GuardOverlap(date, price, airline_code)

would_create_unintended_solution(origin, destination, date, price, airline_code, existing_flights) ==
  IF origin # "FCO"
    THEN FALSE
    ELSE \/ GuardBranchA(destination, date, price, airline_code, existing_flights)
         \/ GuardBranchB(destination, date, price, airline_code, existing_flights)
         \/ GuardOverlap(date, price, airline_code)

(***************************************************************************)
(* The solver.                                                             *)
(***************************************************************************)
\* variant: the validity test without user_2's budget
is_valid_solution_NoBudget2(flight_1, flight_2, user_1, user_2) ==
  IF flight_1.date # flight_2.date THEN FALSE
  ELSE IF \/ flight_1.date \notin user_1.available_dates
          \/ flight_1.date \notin user_2.available_dates THEN FALSE
  ELSE IF flight_1.price > user_1.max_budget THEN FALSE
  ELSE IF \/ flight_1.airline \notin user_1.preferred_airlines
          \/ flight_2.airline \notin user_2.preferred_airlines THEN FALSE
  ELSE TRUE

is_valid_solution(flight_1, flight_2, user_1, user_2) ==
  IF flight_1.date # flight_2.date THEN FALSE
  ELSE IF \/ flight_1.date \notin user_1.available_dates
          \/ flight_1.date \notin user_2.available_dates THEN FALSE
  ELSE IF \/ flight_1.price > user_1.max_budget
          \/ flight_2.price > user_2.max_budget THEN FALSE
  ELSE IF \/ flight_1.airline \notin user_1.preferred_airlines
          \/ flight_2.airline \notin user_2.preferred_airlines THEN FALSE
  ELSE TRUE

\* variant: a pair is tried in increasing order of ids only
AcceptsPair_IncreasingIds(flight_1, flight_2, user_1, user_2) ==
  /\ flight_1.id < flight_2.id
  /\ is_valid_solution(flight_1, flight_2, user_1, user_2)

\* variant: the inner loop body without the test on the two flight ids
AcceptsPair_NoIdCheck(flight_1, flight_2, user_1, user_2) ==
  is_valid_solution(flight_1, flight_2, user_1, user_2)

\* whether the inner loop body of find_solutions appends the pair
AcceptsPair(flight_1, flight_2, user_1, user_2) ==
  /\ flight_1.id # flight_2.id
  /\ is_valid_solution(flight_1, flight_2, user_1, user_2)

\* the solution record appended for an accepted pair
MakeSolution(destination, flight_1, flight_2) ==
  [ destination |-> destination,
    date |-> flight_1.date,
    user_1_flight |-> [ id |-> flight_1.id, price |-> flight_1.price,
                        airline |-> flight_1.airline ],
    user_2_flight |-> [ id |-> flight_2.id, price |-> flight_2.price,
                        airline |-> flight_2.airline ] ]

\* the elements of a finite set of integers, in increasing order
Sorted(S) ==
  [ r \in 1..Cardinality(S) |-> CHOOSE x \in S : Cardinality({ y \in S : y <= x }) = r ]

\* the two nested loops over user_1_flights x user_2_flights: pair number k is
\* (user_1_flights[(k-1) div n2 + 1], user_2_flights[(k-1) mod n2 + 1]), and the
\* accepted pairs are appended in that order
PairLoop(destination, user_1_flights, user_2_flights, user_1, user_2) ==
  LET n2 == Len(user_2_flights)
      total == Len(user_1_flights) * n2
      first(k) == user_1_flights[((k - 1) \div n2) + 1]
      second(k) == user_2_flights[((k - 1) % n2) + 1]
      accepted == Sorted({ k \in 1..total :
                             AcceptsPair(first(k), second(k), user_1, user_2) })
  IN  [ r \in 1..Len(accepted) |->
          MakeSolution(destination, first(accepted[r]), second(accepted[r])) ]

\* one iteration of the loop over destinations
SolutionsTo(destination, flights, puzzle) ==
  LET user_1 == puzzle.user_1
      user_2 == puzzle.user_2
      user_1_flights == SelectSeq(flights, LAMBDA f :
                           f.origin = user_1.origin_airport /\ f.destination = destination)
      user_2_flights == SelectSeq(flights, LAMBDA f :
                           f.origin = user_2.origin_airport /\ f.destination = destination)
  IN  PairLoop(destination, user_1_flights, user_2_flights, user_1, user_2)

\* the destinations of the catalog: a Python set, iterated in an order of its own
Destinations(flights) == { flights[i].destination : i \in 1..Len(flights) }

\* the orders in which a set can be iterated
Orders(S) == { o \in [1..Cardinality(S) -> S] : Range(o) = S }

\* variant: the function returns at the end of the first iteration of the loop
\* over destinations
find_solutions_FirstDestination(flights, puzzle, order) ==
  IF order = << >> THEN << >>
  ELSE SolutionsTo(Head(order), flights, puzzle)

\* find_solutions for one iteration order of the set of destinations
RECURSIVE find_solutions(_, _, _)
find_solutions(flights, puzzle, order) ==
  IF order = << >> THEN << >>
  ELSE SolutionsTo(Head(order), flights, puzzle)
         \o find_solutions(flights, puzzle, Tail(order))

(***************************************************************************)
(* analyze_solutions.                                                      *)
(***************************************************************************)
\* the key of a solution in one of the three groupings; the airline combination
\* is the string f"{airline_1}-{airline_2}"
GroupKey(grouping, sol) ==
  CASE grouping = "by_destination" -> sol.destination
    [] grouping = "by_date" -> sol.date
    [] grouping = "by_airline_combo" ->
         sol.user_1_flight.airline \o "-" \o sol.user_2_flight.airline

\* variant: a solution replaces the list of its key
RECURSIVE GroupLoop_Overwrite(_, _, _)
GroupLoop_Overwrite(grouping, sols, groups) ==
  IF sols = << >> THEN groups
  ELSE LET sol == Head(sols)
           key == GroupKey(grouping, sol)
           with_key == IF key \in DOMAIN groups THEN groups ELSE groups @@ (key :> << >>)
       IN  GroupLoop_Overwrite(grouping, Tail(sols), [with_key EXCEPT ![key] = << sol >>])

\* "for sol in solutions": a dict from key to the list of the solutions of that
\* key; a new key starts with the empty list, then the solution is appended
RECURSIVE GroupLoop(_, _, _)
GroupLoop(grouping, sols, groups) ==
  IF sols = << >> THEN groups
  ELSE LET sol == Head(sols)
           key == GroupKey(grouping, sol)
           with_key == IF key \in DOMAIN groups THEN groups ELSE groups @@ (key :> << >>)
       IN  GroupLoop(grouping, Tail(sols), [with_key EXCEPT ![key] = Append(@, sol)])

analyze_solutions(sols) ==
  IF sols = << >>
    THEN [ total_count |-> 0, by_destination |-> << >>, by_date |-> << >>,
           by_airline_combo |-> << >> ]
    ELSE [ total_count |-> Len(sols),
           by_destination |-> GroupLoop("by_destination", sols, << >>),
           by_date |-> GroupLoop("by_date", sols, << >>),
           by_airline_combo |-> GroupLoop("by_airline_combo", sols, << >>) ]

(***************************************************************************)
(* State.                                                                  *)
(***************************************************************************)
VARIABLES
  pc,                \* the place of the run
  solution_flights,  \* flights of generate_solution_flights
  interest_flights,  \* flights of generate_interest_flights
  filler_flights,    \* flights of generate_filler_flights
  flight_id,         \* the running id counter
  loop_idx,          \* index into solution_destinations / POINTS_OF_INTEREST
  num_flights,       \* flights drawn for the current interest route
  flights_done,      \* flights already appended on the current interest route
  route,             \* the route of the flight being generated
  flight_time,       \* flight time of the flight being generated
  attempt,           \* attempts already rejected for the flight being generated
  start_flight_id,   \* start_flight_id of generate_filler_flights
  all_flights,       \* the finished catalog
  analysis,          \* the result of analyze_solutions
  call,              \* the last call of a pricing or distance function, with its result
  puzzle,            \* the puzzle description given to the solver
  solutions,         \* the result of find_solutions
  existing_flights,  \* the accepted list given to the guard
  candidate,         \* the candidate given to the guard
  verdict,           \* the guard's answer
  varied             \* random draws that left their reference outcome so far

vars == << pc, solution_flights, interest_flights, filler_flights, flight_id, loop_idx,
           num_flights, flights_done, route, flight_time, attempt, start_flight_id,
           all_flights, puzzle, solutions, existing_flights, candidate, verdict, varied, analysis,
           call >>

NoRoute == [origin |-> "", destination |-> ""]

NoFlight == [id |-> 0, origin |-> "", destination |-> "", price |-> 0, date |-> 0,
             airline |-> ""]

NoAnalysis == [total_count |-> 0, by_destination |-> << >>, by_date |-> << >>,
               by_airline_combo |-> << >>]

NoCall == [function |-> ""]

Flight(id, origin, destination, price, date, airline) ==
  [ id |-> id, origin |-> origin, destination |-> destination, price |-> price,
    date |-> date, airline |-> airline ]

(***************************************************************************)
(* generate_solution_flights.                                              *)
(***************************************************************************)
\* variant: the range of u2_sq_price starts at friend_a's budget
U2SqPrice_FromBudget ==
  LET user1_budget == PUZZLE_CONFIG.friend_a.max_budget
      user2_budget == PUZZLE_CONFIG.friend_b.max_budget
  IN  { user1_budget,
        Min2(user2_budget - 5 * Cents, user1_budget + 100 * Cents) }

\* random.uniform(user1_budget + 5, min(user2_budget - 5, user1_budget + 100))
U2SqPrice ==
  LET user1_budget == PUZZLE_CONFIG.friend_a.max_budget
      user2_budget == PUZZLE_CONFIG.friend_b.max_budget
  IN  { user1_budget + 5 * Cents,
        Min2(user2_budget - 5 * Cents, user1_budget + 100 * Cents) }

\* the random draws of one iteration of the loop over solution_destinations:
\* four prices, four decoy factors (percent) and two decoy surcharges (cents)
SolutionDraws ==
  [ shared_price_1 : SolutionPrice, shared_price_2 : SolutionPrice,
    u2_sq_price : U2SqPrice, u2_ek_price : SolutionPrice,
    decoy_1 : {60, 80}, decoy_2 : {50, 70}, orphan : {40, 60}, orphan_2 : {30, 55},
    over_budget : {50 * Cents, 150 * Cents}, near_budget : {5 * Cents, 25 * Cents} ]

RefSolutionDraw ==
  [ shared_price_1 |-> 550 * Cents, shared_price_2 |-> 550 * Cents,
    u2_sq_price |-> PUZZLE_CONFIG.friend_a.max_budget + 5 * Cents,
    u2_ek_price |-> 550 * Cents,
    decoy_1 |-> 60, decoy_2 |-> 50, orphan |-> 40, orphan_2 |-> 30,
    over_budget |-> 50 * Cents, near_budget |-> 5 * Cents ]

SolutionDrawCost(d) ==
  Cost(d.shared_price_1, RefSolutionDraw.shared_price_1)
  + Cost(d.shared_price_2, RefSolutionDraw.shared_price_2)
  + Cost(d.u2_sq_price, RefSolutionDraw.u2_sq_price)
  + Cost(d.u2_ek_price, RefSolutionDraw.u2_ek_price)
  + Cost(d.decoy_1, RefSolutionDraw.decoy_1)
  + Cost(d.decoy_2, RefSolutionDraw.decoy_2)
  + Cost(d.orphan, RefSolutionDraw.orphan)
  + Cost(d.orphan_2, RefSolutionDraw.orphan_2)
  + Cost(d.over_budget, RefSolutionDraw.over_budget)
  + Cost(d.near_budget, RefSolutionDraw.near_budget)

\* the two shared flights: valid for both users
SharedFlights(solution, id, d) ==
  LET config == PUZZLE_CONFIG IN
  << Flight(id, config.friend_a.origin, solution.airport, d.shared_price_1,
            solution.date, "SQ"),
     Flight(id + 1, config.friend_a.origin, solution.airport, d.shared_price_2,
            solution.date, "SQ") >>

\* variant: the second friend_b-only flight carries a friend_a airline
User2OnlyFlights_WrongAirline(solution, id, d) ==
  LET config == PUZZLE_CONFIG IN
  << Flight(id, config.friend_b.origin, solution.airport, d.u2_sq_price,
            solution.date, "SQ"),
     Flight(id + 1, config.friend_b.origin, solution.airport, d.u2_ek_price,
            solution.date, "LH") >>

\* the two user-2-only flights
User2OnlyFlights(solution, id, d) ==
  LET config == PUZZLE_CONFIG IN
  << Flight(id, config.friend_b.origin, solution.airport, d.u2_sq_price,
            solution.date, "SQ"),
     Flight(id + 1, config.friend_b.origin, solution.airport, d.u2_ek_price,
            solution.date, "EK") >>

\* variant: decoy 5 is priced below friend_a's budget by its surcharge
DecoyFlights_UnderBudget(solution, id, d) ==
  LET config == PUZZLE_CONFIG
      decoy_base_price_a == d.shared_price_1
      decoy_base_price_b == d.u2_ek_price
  IN
  << Flight(id, config.friend_a.origin, solution.airport,
            (decoy_base_price_a * d.decoy_1) \div 100, solution.date, "AA"),
     Flight(id + 1, config.friend_b.origin, solution.airport,
            (decoy_base_price_b * d.decoy_2) \div 100, 14, "SQ"),
     Flight(id + 2, config.friend_a.origin, solution.airport,
            (decoy_base_price_a * d.orphan) \div 100, 15, "LH"),
     Flight(id + 3, config.friend_b.origin, solution.airport,
            (decoy_base_price_b * d.orphan_2) \div 100, 21, "EK"),
     Flight(id + 4, config.friend_a.origin, solution.airport,
            config.friend_a.max_budget - d.over_budget, solution.date, "LH"),
     Flight(id + 5, config.friend_a.origin, solution.airport,
            config.friend_b.max_budget + d.near_budget, solution.date, "SQ") >>

\* variant: decoy 3 is dated on the first date both friends are available
DecoyFlights_OrphanInOverlap(solution, id, d) ==
  LET config == PUZZLE_CONFIG
      decoy_base_price_a == d.shared_price_1
      decoy_base_price_b == d.u2_ek_price
  IN
  << Flight(id, config.friend_a.origin, solution.airport,
            (decoy_base_price_a * d.decoy_1) \div 100, solution.date, "AA"),
     Flight(id + 1, config.friend_b.origin, solution.airport,
            (decoy_base_price_b * d.decoy_2) \div 100, 14, "SQ"),
     Flight(id + 2, config.friend_a.origin, solution.airport,
            (decoy_base_price_a * d.orphan) \div 100, 17, "LH"),
     Flight(id + 3, config.friend_b.origin, solution.airport,
            (decoy_base_price_b * d.orphan_2) \div 100, 21, "EK"),
     Flight(id + 4, config.friend_a.origin, solution.airport,
            config.friend_a.max_budget + d.over_budget, solution.date, "LH"),
     Flight(id + 5, config.friend_a.origin, solution.airport,
            config.friend_b.max_budget + d.near_budget, solution.date, "SQ") >>

\* variant: only the first four decoys
DecoyFlights_Four(solution, id, d) ==
  LET config == PUZZLE_CONFIG
      decoy_base_price_a == d.shared_price_1
      decoy_base_price_b == d.u2_ek_price
  IN
  << Flight(id, config.friend_a.origin, solution.airport,
            (decoy_base_price_a * d.decoy_1) \div 100, solution.date, "AA"),
     Flight(id + 1, config.friend_b.origin, solution.airport,
            (decoy_base_price_b * d.decoy_2) \div 100, 14, "SQ"),
     Flight(id + 2, config.friend_a.origin, solution.airport,
            (decoy_base_price_a * d.orphan) \div 100, 15, "LH"),
     Flight(id + 3, config.friend_b.origin, solution.airport,
            (decoy_base_price_b * d.orphan_2) \div 100, 21, "EK") >>

\* decoys 1 to 6
DecoyFlights(solution, id, d) ==
  LET config == PUZZLE_CONFIG
      decoy_base_price_a == d.shared_price_1
      decoy_base_price_b == d.u2_ek_price
      wrong_date == 14
      orphan_date == 15
      orphan_date_2 == 21
  IN
  << Flight(id, config.friend_a.origin, solution.airport,
            (decoy_base_price_a * d.decoy_1) \div 100, solution.date, "AA"),
     Flight(id + 1, config.friend_b.origin, solution.airport,
            (decoy_base_price_b * d.decoy_2) \div 100, wrong_date, "SQ"),
     Flight(id + 2, config.friend_a.origin, solution.airport,
            (decoy_base_price_a * d.orphan) \div 100, orphan_date, "LH"),
     Flight(id + 3, config.friend_b.origin, solution.airport,
            (decoy_base_price_b * d.orphan_2) \div 100, orphan_date_2, "EK"),
     Flight(id + 4, config.friend_a.origin, solution.airport,
            config.friend_a.max_budget + d.over_budget, solution.date, "LH"),
     Flight(id + 5, config.friend_a.origin, solution.airport,
            config.friend_b.max_budget + d.near_budget, solution.date, "SQ") >>

\* the flights appended by one iteration of the loop over solution_destinations
SolutionIterationFlights(solution, id, d) ==
  SharedFlights(solution, id, d)
    \o User2OnlyFlights(solution, id + 2, d)
    \o DecoyFlights(solution, id + 4, d)

\* one iteration of "for solution in config['solution_destinations']";
\* after the last one the function returns (flights, flight_id)
SolutionIteration ==
  /\ pc = "solution"
  /\ \E d \in IF varied < MaxVaried THEN SolutionDraws ELSE { RefSolutionDraw } :
       LET new == SolutionIterationFlights(
                     PUZZLE_CONFIG.solution_destinations[loop_idx], flight_id, d)
           last == loop_idx = Len(PUZZLE_CONFIG.solution_destinations)
       IN  /\ varied + SolutionDrawCost(d) <= MaxVaried
           /\ varied' = varied + SolutionDrawCost(d)
           /\ solution_flights' = solution_flights \o new
           /\ flight_id' = flight_id + Len(new)
           /\ loop_idx' = IF last THEN 1 ELSE loop_idx + 1
           /\ pc' = IF last THEN "interest_route" ELSE "solution"
  /\ UNCHANGED << interest_flights, filler_flights, num_flights, flights_done, route,
                  flight_time, attempt, start_flight_id, all_flights, puzzle, solutions,
                  existing_flights, candidate, verdict, analysis, call >>

(***************************************************************************)
(* The rejection loop shared by the two bulk generators.                   *)
(***************************************************************************)
\* reference outcome of a random.choice among airline codes: the first candidate
\* in the order of the airlines table
RefAirline(S) == airlines[CHOOSE i \in 1..Len(airlines) :
                            airlines[i] \in S /\ \A j \in 1..(i - 1) : airlines[j] \notin S]

\* reference outcome of random.choice(all_dates): a date both friends are available
RefDay == PUZZLE_CONFIG.solution_destinations[2].date

\* the draws of one attempt: price variation (percent), date, airline; with
\* `free` false, the reference outcome alone
AttemptDraws(all_dates, airline_choices, free) ==
  IF free
    THEN [ variation : PriceVariation, date : all_dates, airline : airline_choices ]
    ELSE { [ variation |-> -15, date |-> RefDay, airline |-> RefAirline(airline_choices) ] }

AttemptDrawCost(d, airline_choices) ==
  Cost(d.variation, -15) + Cost(d.date, RefDay) + Cost(d.airline, RefAirline(airline_choices))

\* the flight appended when an attempt is accepted
CandidateFlight(id, r, time, d) ==
  Flight(id, r.origin, r.destination,
         calculate_flight_price(calculate_distance(r.origin, r.destination), time,
                                d.variation),
         d.date, d.airline)

\* the fallback flight of the for-else: twice the price, an airline outside SQ/LH/EK
FallbackFlight(id, r, time, d) ==
  Flight(id, r.origin, r.destination,
         calculate_flight_price(calculate_distance(r.origin, r.destination), time,
                                d.variation) * 2,
         d.date, d.airline)

(***************************************************************************)
(* generate_interest_flights.                                              *)
(***************************************************************************)
\* datetime(2025, 7, 8) + i days for i in range(14)
InterestDates == 8..21

\* variant: no date is reserved on any route
solution_dates_used_None(r) == { }

\* variant: only the first solution destination is compared with the route
solution_dates_used_FirstOnly(r) ==
  LET x == PUZZLE_CONFIG.solution_destinations[1] IN
  IF r.origin = PUZZLE_CONFIG.friend_a.origin /\ r.destination = x.airport
    THEN { x.date }
    ELSE { }

\* the designated dates of a route that matches a solution route
solution_dates_used(r) ==
  { sol.date : sol \in { x \in Range(PUZZLE_CONFIG.solution_destinations) :
       \/ r.origin = PUZZLE_CONFIG.friend_a.origin /\ r.destination = x.airport
       \/ r.origin = PUZZLE_CONFIG.friend_b.origin /\ r.destination = x.airport } }

\* variant: the interest generator without the check of the destination's
\* designated dates
InterestRejects_NoDateCheck(r, flight, flights) ==
  would_create_unintended_solution(flight.origin, flight.destination, flight.date,
                                   flight.price, flight.airline, flights)

\* whether an attempt of the interest loop is re-rolled
InterestRejects(r, flight, flights) ==
  \/ flight.date \in solution_dates_used(r)
  \/ would_create_unintended_solution(flight.origin, flight.destination, flight.date,
                                      flight.price, flight.airline, flights)

\* "for destination in POINTS_OF_INTEREST[origin]": num_flights is drawn
InterestBeginRoute ==
  /\ pc = "interest_route"
  /\ \E n \in NumFlightsMin..NumFlightsMax :
       /\ varied + Cost(n, NumFlightsMin) <= MaxVaried
       /\ varied' = varied + Cost(n, NumFlightsMin)
       /\ num_flights' = n
  /\ flights_done' = 0
  /\ route' = POINTS_OF_INTEREST[loop_idx]
  /\ pc' = "interest_flight"
  /\ UNCHANGED << solution_flights, interest_flights, filler_flights, flight_id, loop_idx,
                  flight_time, attempt, start_flight_id, all_flights, puzzle, solutions,
                  existing_flights, candidate, verdict, analysis, call >>

\* "for _ in range(num_flights)": distance and flight time of the next flight
InterestBeginFlight ==
  /\ pc = "interest_flight"
  /\ \E deviation \in FlightTimeDeviation :
       /\ varied + Cost(deviation, -15) <= MaxVaried
       /\ varied' = varied + Cost(deviation, -15)
       /\ flight_time' = calculate_flight_time(
                            calculate_distance(route.origin, route.destination), deviation)
  /\ attempt' = 0
  /\ pc' = "interest_attempt"
  /\ UNCHANGED << solution_flights, interest_flights, filler_flights, flight_id, loop_idx,
                  num_flights, flights_done, route, start_flight_id, all_flights, puzzle,
                  solutions, existing_flights, candidate, verdict, analysis, call >>

\* variant: the interest generator appends without advancing flight_id
InterestAppend_NoIncrement(flight) ==
  LET route_done == flights_done + 1 = num_flights
      last_route == loop_idx = Len(POINTS_OF_INTEREST)
  IN  /\ interest_flights' = Append(interest_flights, flight)
      /\ flight_id' = flight_id
      /\ flights_done' = flights_done + 1
      /\ attempt' = 0
      /\ loop_idx' = IF route_done /\ ~last_route THEN loop_idx + 1 ELSE loop_idx
      /\ pc' = IF ~route_done THEN "interest_flight"
               ELSE IF ~last_route THEN "interest_route" ELSE "filler"
      /\ start_flight_id' = IF route_done /\ last_route THEN flight_id
                            ELSE start_flight_id

\* flights.append(...) and flight_id += 1 of the interest loop, then the loop
\* heads: next flight, next route, or return (flights, flight_id)
InterestAppend(flight) ==
  LET route_done == flights_done + 1 = num_flights
      last_route == loop_idx = Len(POINTS_OF_INTEREST)
  IN  /\ interest_flights' = Append(interest_flights, flight)
      /\ flight_id' = flight_id + 1
      /\ flights_done' = flights_done + 1
      /\ attempt' = 0
      /\ loop_idx' = IF route_done /\ ~last_route THEN loop_idx + 1 ELSE loop_idx
      /\ pc' = IF ~route_done THEN "interest_flight"
               ELSE IF ~last_route THEN "interest_route" ELSE "filler"
      /\ start_flight_id' = IF route_done /\ last_route THEN flight_id + 1
                            ELSE start_flight_id

\* variant: an attempt is re-rolled whatever the number of attempts made
InterestReject_Unbounded ==
  /\ pc = "interest_attempt"
  /\ \E d \in AttemptDraws(InterestDates,
                           get_airline_for_route(route.origin, route.destination),
                           varied < MaxVaried) :
       LET cost == AttemptDrawCost(d, get_airline_for_route(route.origin,
                                                            route.destination))
           flight == CandidateFlight(flight_id, route, flight_time, d)
       IN  /\ varied + cost <= MaxVaried
           /\ InterestRejects(route, flight, interest_flights)
           /\ varied' = varied + cost
  /\ attempt' = attempt + 1
  /\ UNCHANGED << pc, solution_flights, interest_flights, filler_flights, flight_id,
                  loop_idx, num_flights, flights_done, route, flight_time,
                  start_flight_id, all_flights, puzzle, solutions, existing_flights,
                  candidate, verdict, analysis, call >>

\* an attempt that is re-rolled
InterestReject ==
  /\ pc = "interest_attempt"
  /\ attempt < InterestMaxAttempts
  /\ \E d \in AttemptDraws(InterestDates,
                           get_airline_for_route(route.origin, route.destination),
                           varied < MaxVaried) :
       LET cost == AttemptDrawCost(d, get_airline_for_route(route.origin,
                                                            route.destination))
           flight == CandidateFlight(flight_id, route, flight_time, d)
       IN  /\ varied + cost <= MaxVaried
           /\ InterestRejects(route, flight, interest_flights)
           /\ varied' = varied + cost
  /\ attempt' = attempt + 1
  /\ UNCHANGED << pc, solution_flights, interest_flights, filler_flights, flight_id,
                  loop_idx, num_flights, flights_done, route, flight_time,
                  start_flight_id, all_flights, puzzle, solutions, existing_flights,
                  candidate, verdict, analysis, call >>

\* an attempt that reaches "break": the candidate is appended
InterestAccept ==
  /\ pc = "interest_attempt"
  /\ attempt < InterestMaxAttempts
  /\ \E d \in AttemptDraws(InterestDates,
                           get_airline_for_route(route.origin, route.destination),
                           varied < MaxVaried) :
       LET cost == AttemptDrawCost(d, get_airline_for_route(route.origin,
                                                            route.destination))
           flight == CandidateFlight(flight_id, route, flight_time, d)
       IN  /\ varied + cost <= MaxVaried
           /\ ~InterestRejects(route, flight, interest_flights)
           /\ varied' = varied + cost
           /\ InterestAppend(flight)
  /\ UNCHANGED << solution_flights, filler_flights, num_flights, route, flight_time,
                  all_flights, puzzle, solutions, existing_flights, candidate, verdict, analysis, call >>

\* the for-else: every attempt was re-rolled, the fallback values are appended
InterestFallback ==
  /\ pc = "interest_attempt"
  /\ attempt = InterestMaxAttempts
  /\ \E d \in AttemptDraws(InterestDates, FallbackAirlines, varied < MaxVaried) :
       LET cost == AttemptDrawCost(d, FallbackAirlines) IN
       /\ varied + cost <= MaxVaried
       /\ varied' = varied + cost
       /\ InterestAppend(FallbackFlight(flight_id, route, flight_time, d))
  /\ UNCHANGED << solution_flights, filler_flights, num_flights, route, flight_time,
                  all_flights, puzzle, solutions, existing_flights, candidate, verdict, analysis, call >>

(***************************************************************************)
(* generate_filler_flights.                                                *)
(***************************************************************************)
\* datetime(2025, 7, 1) + i days for i in range(21)
FillerDates == 1..21

\* target_total: the catalog size asked of generate_filler_flights, here the
\* smallest solution + interest catalog plus FillerSlack
target_total ==
  Len(PUZZLE_CONFIG.solution_destinations) * 10
    + Len(POINTS_OF_INTEREST) * NumFlightsMin + FillerSlack

covered_routes ==
  Range(POINTS_OF_INTEREST)
    \cup { [origin |-> PUZZLE_CONFIG.friend_a.origin, destination |-> sol.airport] :
             sol \in Range(PUZZLE_CONFIG.solution_destinations) }
    \cup { [origin |-> PUZZLE_CONFIG.friend_b.origin, destination |-> sol.airport] :
             sol \in Range(PUZZLE_CONFIG.solution_destinations) }

\* random.sample(iata_codes, 2): two distinct airports, in order
SampledRoutes ==
  { [origin |-> o, destination |-> d] : o, d \in Range(airports) } \
    { [origin |-> o, destination |-> o] : o \in Range(airports) }

existing_count(r, flights) ==
  Cardinality({ i \in 1..Len(flights) :
                  flights[i].origin = r.origin /\ flights[i].destination = r.destination })

\* variant: the loop skips full routes only
FillerSkips_CapOnly(r, flights) == existing_count(r, flights) >= RouteCap

\* "if route in covered_routes or existing_count >= 5"
FillerSkips(r, flights) == r \in covered_routes \/ existing_count(r, flights) >= RouteCap

\* reference outcome of random.sample(iata_codes, 2): the first route, in the order
\* of the airports table, that the loop does not skip
RefRoute(flights) ==
  LET n == Len(airports)
      at(k) == [origin |-> airports[((k - 1) \div n) + 1],
                destination |-> airports[((k - 1) % n) + 1]]
      kept == { k \in 1..(n * n) : at(k) \in SampledRoutes /\ ~FillerSkips(at(k), flights) }
  IN  at(CHOOSE k \in kept : \A other \in kept : k <= other)

\* variant: the loop stops one flight short
FillerWanted_OneShort == Len(filler_flights) < target_total - start_flight_id

\* the condition of the while loop
FillerWanted == Len(filler_flights) < target_total - start_flight_id + 1

\* whether an attempt of the filler loop is re-rolled
FillerRejects(flight, flights) ==
  would_create_unintended_solution(flight.origin, flight.destination, flight.date,
                                   flight.price, flight.airline, flights)

\* a sampled route that is covered or full: "continue"
FillerSkip ==
  /\ pc = "filler"
  /\ FillerWanted
  /\ \E r \in IF varied < MaxVaried THEN SampledRoutes ELSE { RefRoute(filler_flights) } :
       /\ varied + Cost(r, RefRoute(filler_flights)) <= MaxVaried
       /\ FillerSkips(r, filler_flights)
       /\ varied' = varied + Cost(r, RefRoute(filler_flights))
  /\ UNCHANGED << pc, solution_flights, interest_flights, filler_flights, flight_id,
                  loop_idx, num_flights, flights_done, route, flight_time, attempt,
                  start_flight_id, all_flights, puzzle, solutions, existing_flights,
                  candidate, verdict, analysis, call >>

\* a sampled route that is kept: distance and flight time of the next flight
FillerBeginFlight ==
  /\ pc = "filler"
  /\ FillerWanted
  /\ \E r \in IF varied < MaxVaried THEN SampledRoutes
                                    ELSE { RefRoute(filler_flights) },
        deviation \in FlightTimeDeviation :
       LET cost == Cost(r, RefRoute(filler_flights)) + Cost(deviation, -15) IN
       /\ varied + cost <= MaxVaried
       /\ ~FillerSkips(r, filler_flights)
       /\ varied' = varied + cost
       /\ route' = r
       /\ flight_time' = calculate_flight_time(
                            calculate_distance(r.origin, r.destination), deviation)
  /\ attempt' = 0
  /\ pc' = "filler_attempt"
  /\ UNCHANGED << solution_flights, interest_flights, filler_flights, flight_id, loop_idx,
                  num_flights, flights_done, start_flight_id, all_flights, puzzle,
                  solutions, existing_flights, candidate, verdict, analysis, call >>

\* variant: the flight of a completed iteration is dropped instead of appended
FillerAppend_Drops(flight) ==
  /\ filler_flights' = filler_flights
  /\ flight_id' = flight_id
  /\ attempt' = 0
  /\ pc' = "filler"

\* flights.append(...) and flight_id += 1 of the filler loop
FillerAppend(flight) ==
  /\ filler_flights' = Append(filler_flights, flight)
  /\ flight_id' = flight_id + 1
  /\ attempt' = 0
  /\ pc' = "filler"

FillerReject ==
  /\ pc = "filler_attempt"
  /\ attempt < FillerMaxAttempts
  /\ \E d \in AttemptDraws(FillerDates,
                           get_airline_for_route(route.origin, route.destination),
                           varied < MaxVaried) :
       LET cost == AttemptDrawCost(d, get_airline_for_route(route.origin,
                                                            route.destination))
           flight == CandidateFlight(flight_id, route, flight_time, d)
       IN  /\ varied + cost <= MaxVaried
           /\ FillerRejects(flight, filler_flights)
           /\ varied' = varied + cost
  /\ attempt' = attempt + 1
  /\ UNCHANGED << pc, solution_flights, interest_flights, filler_flights, flight_id,
                  loop_idx, num_flights, flights_done, route, flight_time,
                  start_flight_id, all_flights, puzzle, solutions, existing_flights,
                  candidate, verdict, analysis, call >>

FillerAccept ==
  /\ pc = "filler_attempt"
  /\ attempt < FillerMaxAttempts
  /\ \E d \in AttemptDraws(FillerDates,
                           get_airline_for_route(route.origin, route.destination),
                           varied < MaxVaried) :
       LET cost == AttemptDrawCost(d, get_airline_for_route(route.origin,
                                                            route.destination))
           flight == CandidateFlight(flight_id, route, flight_time, d)
       IN  /\ varied + cost <= MaxVaried
           /\ ~FillerRejects(flight, filler_flights)
           /\ varied' = varied + cost
           /\ FillerAppend(flight)
  /\ UNCHANGED << solution_flights, interest_flights, loop_idx, num_flights, flights_done,
                  route, flight_time, start_flight_id, all_flights, puzzle, solutions,
                  existing_flights, candidate, verdict, analysis, call >>

FillerFallback ==
  /\ pc = "filler_attempt"
  /\ attempt = FillerMaxAttempts
  /\ \E d \in AttemptDraws(FillerDates, FallbackAirlines, varied < MaxVaried) :
       LET cost == AttemptDrawCost(d, FallbackAirlines) IN
       /\ varied + cost <= MaxVaried
       /\ varied' = varied + cost
       /\ FillerAppend(FallbackFlight(flight_id, route, flight_time, d))
  /\ UNCHANGED << solution_flights, interest_flights, loop_idx, num_flights, flights_done,
                  route, flight_time, start_flight_id, all_flights, puzzle, solutions,
                  existing_flights, candidate, verdict, analysis, call >>

(***************************************************************************)
(* The catalog and the solver run over it.                                 *)
(***************************************************************************)
\* the while loop ends; all_flights = solution_flights + interest_flights + filler_flights
Assemble ==
  /\ pc = "filler"
  /\ ~FillerWanted
  /\ all_flights' = solution_flights \o interest_flights \o filler_flights
  /\ pc' = "solve"
  /\ UNCHANGED << solution_flights, interest_flights, filler_flights, flight_id, loop_idx,
                  num_flights, flights_done, route, flight_time, attempt,
                  start_flight_id, puzzle, solutions, existing_flights, candidate,
                  verdict, varied, analysis, call >>

\* reference iteration order of a set of destinations: first appearance in the catalog
RefOrder(flights) ==
  LET firsts == Sorted({ i \in 1..Len(flights) :
                   \A j \in 1..(i - 1) : flights[j].destination # flights[i].destination })
  IN  [ r \in 1..Len(firsts) |-> flights[firsts[r]].destination ]

\* find_solutions(all_flights, puzzle) over the generated catalog
Solve ==
  /\ pc = "solve"
  /\ \E order \in IF varied < MaxVaried THEN Orders(Destinations(all_flights))
                                          ELSE { RefOrder(all_flights) } :
       LET cost == Cost(order, RefOrder(all_flights)) IN
       /\ varied + cost <= MaxVaried
       /\ varied' = varied + cost
       /\ solutions' = find_solutions(all_flights, puzzle, order)
  /\ pc' = "done"
  /\ UNCHANGED << solution_flights, interest_flights, filler_flights, flight_id, loop_idx,
                  num_flights, flights_done, route, flight_time, attempt,
                  start_flight_id, all_flights, puzzle, existing_flights, candidate,
                  verdict, analysis, call >>

(***************************************************************************)
(* The generation pipeline followed by the solver.                         *)
(***************************************************************************)
Init ==
  /\ pc = "solution"
  /\ solution_flights = << >>
  /\ interest_flights = << >>
  /\ filler_flights = << >>
  /\ flight_id = 1
  /\ loop_idx = 1
  /\ num_flights = 0
  /\ flights_done = 0
  /\ route = NoRoute
  /\ flight_time = 0
  /\ attempt = 0
  /\ start_flight_id = 0
  /\ all_flights = << >>
  /\ puzzle = puzzle_description
  /\ solutions = << >>
  /\ existing_flights = << >>
  /\ candidate = NoFlight
  /\ verdict = FALSE
  /\ varied = 0
  /\ analysis = NoAnalysis
  /\ call = NoCall

Next ==
  \/ SolutionIteration
  \/ InterestBeginRoute
  \/ InterestBeginFlight
  \/ InterestReject
  \/ InterestAccept
  \/ InterestFallback
  \/ FillerSkip
  \/ FillerBeginFlight
  \/ FillerReject
  \/ FillerAccept
  \/ FillerFallback
  \/ Assemble
  \/ Solve

Spec == Init /\ [][Next]_vars

\* every step of the generator other than the sampling of a route by the filler
\* loop: the program is sequential and runs its next statement
Proceed ==
  \/ SolutionIteration
  \/ InterestBeginRoute
  \/ InterestBeginFlight
  \/ InterestReject
  \/ InterestAccept
  \/ InterestFallback
  \/ FillerReject
  \/ FillerAccept
  \/ FillerFallback
  \/ Assemble

\* The run under fair scheduling: the generator keeps running, and the filler
\* loop's random.sample, which may return skipped routes any number of times (an
\* iteration that changes nothing), returns a route that is not skipped as long
\* as one exists.
FairSpec == Init /\ [][Next]_vars /\ WF_vars(Proceed) /\ WF_vars(FillerBeginFlight)

(***************************************************************************)
(* The generation pipeline followed by the analysis script's main():       *)
(* find_solutions, then analyze_solutions over its result.                 *)
(***************************************************************************)
\* variant: the analysis empties the list it was given
AnalyzeCatalog_Consumes ==
  /\ pc = "done"
  /\ analysis' = analyze_solutions(solutions)
  /\ solutions' = << >>
  /\ pc' = "analyzed"
  /\ UNCHANGED << solution_flights, interest_flights, filler_flights, flight_id, loop_idx,
                  num_flights, flights_done, route, flight_time, attempt,
                  start_flight_id, all_flights, puzzle, existing_flights, candidate,
                  verdict, varied, call >>

\* analysis = analyze_solutions(solutions) over the solutions of the catalog
AnalyzeCatalog ==
  /\ pc = "done"
  /\ analysis' = analyze_solutions(solutions)
  /\ pc' = "analyzed"
  /\ UNCHANGED << solution_flights, interest_flights, filler_flights, flight_id, loop_idx,
                  num_flights, flights_done, route, flight_time, attempt,
                  start_flight_id, all_flights, puzzle, solutions, existing_flights,
                  candidate, verdict, varied, call >>

ReportNext == Next \/ AnalyzeCatalog

ReportSpec == Init /\ [][ReportNext]_vars

(***************************************************************************)
(* The solver on its own: find_solutions over any catalog and puzzle.      *)
(***************************************************************************)
\* a puzzle whose two users differ in origin, dates, airlines and budgets
other_puzzle ==
  [ user_1 |-> [ origin_airport |-> "FCO",
                 available_dates |-> {17, 18},
                 preferred_airlines |-> {"LH"},
                 max_budget |-> 810 * Cents ],
    user_2 |-> [ origin_airport |-> "ARN",
                 available_dates |-> {18},
                 preferred_airlines |-> {"EK", "SQ"},
                 max_budget |-> 700 * Cents ] ]

PuzzleSamples == { puzzle_description, other_puzzle }

\* flights on either side of every clause of is_valid_solution
FlightSamples(id) ==
  { Flight(id, o, d, p, day, a) :
      o \in {"FCO", "ARN"}, d \in {"SIN", "BKK"},
      p \in {700 * Cents, 810 * Cents, 810 * Cents + 1},
      day \in {17, 18}, a \in {"LH", "SQ", "EK"} }

SolverInit ==
  /\ pc = "load"
  /\ solution_flights = << >>
  /\ interest_flights = << >>
  /\ filler_flights = << >>
  /\ flight_id = 1
  /\ loop_idx = 1
  /\ num_flights = 0
  /\ flights_done = 0
  /\ route = NoRoute
  /\ flight_time = 0
  /\ attempt = 0
  /\ start_flight_id = 0
  /\ all_flights = << >>
  /\ puzzle \in PuzzleSamples
  /\ solutions = << >>
  /\ existing_flights = << >>
  /\ candidate = NoFlight
  /\ verdict = FALSE
  /\ varied = 0
  /\ analysis = NoAnalysis
  /\ call = NoCall

\* json.load of flights.json: the next record of the catalog, with a fresh id or
\* with the id of the first record
LoadFlight ==
  /\ pc = "load"
  /\ Len(all_flights) < MaxCatalog
  /\ \E id \in {1, Len(all_flights) + 1} :
       \E f \in FlightSamples(id) : all_flights' = Append(all_flights, f)
  /\ UNCHANGED << pc, solution_flights, interest_flights, filler_flights, flight_id,
                  loop_idx, num_flights, flights_done, route, flight_time, attempt,
                  start_flight_id, puzzle, solutions, existing_flights, candidate,
                  verdict, varied, analysis, call >>

\* find_solutions(flights, puzzle), for every iteration order of the destinations
SolveLoaded ==
  /\ pc = "load"
  /\ \E order \in Orders(Destinations(all_flights)) :
       solutions' = find_solutions(all_flights, puzzle, order)
  /\ pc' = "solved"
  /\ UNCHANGED << solution_flights, interest_flights, filler_flights, flight_id, loop_idx,
                  num_flights, flights_done, route, flight_time, attempt,
                  start_flight_id, all_flights, puzzle, existing_flights, candidate,
                  verdict, varied, analysis, call >>

SolverNext == LoadFlight \/ SolveLoaded

SolverSpec == SolverInit /\ [][SolverNext]_vars

(***************************************************************************)
(* The guard on its own: would_create_unintended_solution over any         *)
(* accepted list and candidate.                                            *)
(***************************************************************************)
\* flights on either side of every clause of the guard
GuardSamples(id) ==
  { Flight(id, o, d, p, day, a) :
      o \in {"FCO", "ARN"}, d \in {"SIN", "BKK"},
      p \in {700 * Cents, 810 * Cents, 810 * Cents + 1},
      day \in {16, 17, 20}, a \in {"LH", "SQ", "EK"} }

GuardInit ==
  /\ pc = "accepting"
  /\ solution_flights = << >>
  /\ interest_flights = << >>
  /\ filler_flights = << >>
  /\ flight_id = 1
  /\ loop_idx = 1
  /\ num_flights = 0
  /\ flights_done = 0
  /\ route = NoRoute
  /\ flight_time = 0
  /\ attempt = 0
  /\ start_flight_id = 0
  /\ all_flights = << >>
  /\ puzzle = puzzle_description
  /\ solutions = << >>
  /\ existing_flights = << >>
  /\ candidate = NoFlight
  /\ verdict = FALSE
  /\ varied = 0
  /\ analysis = NoAnalysis
  /\ call = NoCall

\* a flight accepted earlier by the caller's loop
AcceptFlight ==
  /\ pc = "accepting"
  /\ Len(existing_flights) < MaxExisting
  /\ \E f \in GuardSamples(flight_id) :
       existing_flights' = Append(existing_flights, f)
  /\ flight_id' = flight_id + 1
  /\ UNCHANGED << pc, solution_flights, interest_flights, filler_flights, loop_idx,
                  num_flights, flights_done, route, flight_time, attempt,
                  start_flight_id, all_flights, puzzle, solutions, candidate, verdict,
                  varied, analysis, call >>

\* the call would_create_unintended_solution(origin, destination, date, price,
\* airline_code, existing_flights) for the next candidate
CallGuard ==
  /\ pc = "accepting"
  /\ \E c \in GuardSamples(flight_id) :
       /\ candidate' = c
       /\ verdict' = would_create_unintended_solution(c.origin, c.destination, c.date,
                                                      c.price, c.airline, existing_flights)
  /\ pc' = "checked"
  /\ UNCHANGED << solution_flights, interest_flights, filler_flights, flight_id, loop_idx,
                  num_flights, flights_done, route, flight_time, attempt,
                  start_flight_id, all_flights, puzzle, solutions, existing_flights,
                  varied, analysis, call >>

GuardNext == AcceptFlight \/ CallGuard

GuardSpec == GuardInit /\ [][GuardNext]_vars

(***************************************************************************)
(* analyze_solutions on its own: any list of solutions.                    *)
(***************************************************************************)
\* solutions over two destinations, two dates and the four airline combinations
SolutionSamples ==
  { MakeSolution(d, Flight(1, "FCO", d, 550 * Cents, day, a1),
                    Flight(2, "FCO", d, 680 * Cents, day, a2)) :
      d \in {"SIN", "BKK"}, day \in {17, 18}, a1 \in {"LH", "SQ"}, a2 \in {"EK", "SQ"} }

AnalyzeInit ==
  /\ pc = "collect"
  /\ solution_flights = << >>
  /\ interest_flights = << >>
  /\ filler_flights = << >>
  /\ flight_id = 1
  /\ loop_idx = 1
  /\ num_flights = 0
  /\ flights_done = 0
  /\ route = NoRoute
  /\ flight_time = 0
  /\ attempt = 0
  /\ start_flight_id = 0
  /\ all_flights = << >>
  /\ puzzle = puzzle_description
  /\ solutions = << >>
  /\ existing_flights = << >>
  /\ candidate = NoFlight
  /\ verdict = FALSE
  /\ varied = 0
  /\ analysis = NoAnalysis
  /\ call = NoCall

\* the next solution of the list handed to analyze_solutions
AddSolution ==
  /\ pc = "collect"
  /\ Len(solutions) < MaxSolutions
  /\ \E sol \in SolutionSamples : solutions' = Append(solutions, sol)
  /\ UNCHANGED << pc, solution_flights, interest_flights, filler_flights, flight_id,
                  loop_idx, num_flights, flights_done, route, flight_time, attempt,
                  start_flight_id, all_flights, puzzle, existing_flights, candidate,
                  verdict, varied, analysis, call >>

\* analysis = analyze_solutions(solutions)
Analyze ==
  /\ pc = "collect"
  /\ analysis' = analyze_solutions(solutions)
  /\ pc' = "analyzed"
  /\ UNCHANGED << solution_flights, interest_flights, filler_flights, flight_id, loop_idx,
                  num_flights, flights_done, route, flight_time, attempt,
                  start_flight_id, all_flights, puzzle, solutions, existing_flights,
                  candidate, verdict, varied, call >>

AnalyzeNext == AddSolution \/ Analyze

AnalyzeSpec == AnalyzeInit /\ [][AnalyzeNext]_vars

(***************************************************************************)
(* The pricing function on its own.                                        *)
(***************************************************************************)
\* the longest great-circle distance, pi * r with r = 6371, in km
MaxDistance == 20015

\* the distances of the airport table and the distances around every threshold of
\* calculate_flight_time and calculate_flight_price
DistanceSamples ==
  { calculate_distance(r.origin, r.destination) : r \in SampledRoutes }
    \cup { 1, 1875, 1876, 2000, 2001, 5000, 5001, 10000, 10001, MaxDistance }

\* the flight times calculate_flight_time returns for a distance, the shortest
\* (1.0 hour) and the longest (MaxDistance at the lower speed bound) of all
FlightTimeSamples(distance_km) ==
  { calculate_flight_time(distance_km, deviation) : deviation \in FlightTimeDeviation }
    \cup { 10, calculate_flight_time(MaxDistance, 15) }

CalcInit ==
  /\ pc = "calc"
  /\ solution_flights = << >>
  /\ interest_flights = << >>
  /\ filler_flights = << >>
  /\ flight_id = 1
  /\ loop_idx = 1
  /\ num_flights = 0
  /\ flights_done = 0
  /\ route = NoRoute
  /\ flight_time = 0
  /\ attempt = 0
  /\ start_flight_id = 0
  /\ all_flights = << >>
  /\ puzzle = puzzle_description
  /\ solutions = << >>
  /\ existing_flights = << >>
  /\ candidate = NoFlight
  /\ verdict = FALSE
  /\ varied = 0
  /\ analysis = NoAnalysis
  /\ call = NoCall

\* a call calculate_flight_price(distance_km, flight_time, is_solution)
CallFlightPrice ==
  /\ pc = "calc"
  /\ \E distance_km \in DistanceSamples, is_solution \in BOOLEAN,
        variation \in PriceVariation, solution_draw \in SolutionPrice :
       \E time \in FlightTimeSamples(distance_km) :
         call' = [ function |-> "calculate_flight_price",
                   distance_km |-> distance_km,
                   flight_time |-> time,
                   is_solution |-> is_solution,
                   result |-> calculate_flight_price_with_flag(
                                distance_km, time, is_solution, variation, solution_draw) ]
  /\ UNCHANGED << pc, solution_flights, interest_flights, filler_flights, flight_id,
                  loop_idx, num_flights, flights_done, route, flight_time, attempt,
                  start_flight_id, all_flights, puzzle, solutions, existing_flights,
                  candidate, verdict, varied, analysis >>

\* a call calculate_distance(origin Latitude, Longitude, destination Latitude,
\* Longitude) and the call with the two airports exchanged
CallDistance ==
  /\ pc = "calc"
  /\ \E origin, destination \in DOMAIN airport_dict :
       LET o == airport_dict[origin]
           d == airport_dict[destination]
       IN  call' = [ function |-> "calculate_distance",
                     origin |-> origin,
                     destination |-> destination,
                     result |-> haversine(o.Latitude, o.Longitude,
                                          d.Latitude, d.Longitude),
                     reverse |-> haversine(d.Latitude, d.Longitude,
                                           o.Latitude, o.Longitude) ]
  /\ UNCHANGED << pc, solution_flights, interest_flights, filler_flights, flight_id,
                  loop_idx, num_flights, flights_done, route, flight_time, attempt,
                  start_flight_id, all_flights, puzzle, solutions, existing_flights,
                  candidate, verdict, varied, analysis >>

CalcNext == CallFlightPrice \/ CallDistance

CalcSpec == CalcInit /\ [][CalcNext]_vars

(***************************************************************************)
(* generate_migration_data.py: synthetic migration between states.         *)
(* The tables are the rows of five states, one or two of each census       *)
(* region, in the order of the 2020s population table; NEVADA is not in    *)
(* the 1960s table.  Multipliers are in hundredths, the distance           *)
(* multiplier in tenths.                                                   *)
(***************************************************************************)
Eras == << "1960s", "1990s", "2020s" >>

STATE_POPULATIONS_1960S ==
  ("CALIFORNIA" :> 15717204) @@ ("NEW YORK" :> 16782304) @@ ("TEXAS" :> 9579677)
    @@ ("OHIO" :> 9706397)

STATE_POPULATIONS_1990S ==
  ("CALIFORNIA" :> 29760021) @@ ("NEW YORK" :> 17990455) @@ ("TEXAS" :> 16986510)
    @@ ("OHIO" :> 10847115) @@ ("NEVADA" :> 1201833)

STATE_POPULATIONS_2020S ==
  ("CALIFORNIA" :> 39538223) @@ ("TEXAS" :> 29145505) @@ ("NEW YORK" :> 20201249)
    @@ ("OHIO" :> 11799448) @@ ("NEVADA" :> 3104614)

ALL_STATE_POPULATIONS ==
  ("1960s" :> STATE_POPULATIONS_1960S) @@ ("1990s" :> STATE_POPULATIONS_1990S)
    @@ ("2020s" :> STATE_POPULATIONS_2020S)

\* list(STATE_POPULATIONS_2020S.keys()), in the order of the table
states == << "CALIFORNIA", "TEXAS", "NEW YORK", "OHIO", "NEVADA" >>

NEIGHBORING_STATES ==
  ("CALIFORNIA" :> {"NEVADA"}) @@ ("NEVADA" :> {"CALIFORNIA"}) @@ ("NEW YORK" :> { })
    @@ ("OHIO" :> { }) @@ ("TEXAS" :> { })

ALL_DESTINATION_MULTIPLIERS ==
  ("1960s" :> (("CALIFORNIA" :> 210) @@ ("NEW YORK" :> 140) @@ ("OHIO" :> 120)
                 @@ ("TEXAS" :> 120)))
    @@ ("1990s" :> (("TEXAS" :> 160) @@ ("CALIFORNIA" :> 150) @@ ("NEVADA" :> 130)))
    @@ ("2020s" :> (("TEXAS" :> 190) @@ ("NEVADA" :> 120)))

ORIGIN_PENALTIES ==
  ("1960s" :> << >>) @@ ("1990s" :> << >>)
    @@ ("2020s" :> (("CALIFORNIA" :> 65) @@ ("NEW YORK" :> 80)))

DISTANCE_REGIONS ==
  [ NORTHEAST |-> {"NEW YORK"}, MIDWEST |-> {"OHIO"}, SOUTH |-> {"TEXAS"},
    WEST |-> {"NEVADA", "CALIFORNIA"} ]

\* the regions in the order of the table
RegionOrder == << "NORTHEAST", "MIDWEST", "SOUTH", "WEST" >>

\* the first region of the table that lists the state
get_region(state) ==
  LET found == { k \in DOMAIN RegionOrder : state \in DISTANCE_REGIONS[RegionOrder[k]] }
  IN  IF found = { } THEN "UNKNOWN"
      ELSE RegionOrder[CHOOSE k \in found : \A m \in found : k <= m]

\* the distance multiplier, in tenths: the tests in the order of the code
calculate_distance_multiplier(origin, destination, era) ==
  LET origin_region == get_region(origin)
      dest_region == get_region(destination)
  IN  IF origin_region = dest_region THEN 12
      ELSE IF era = "1960s"
        THEN IF origin_region = "SOUTH" /\ dest_region \in {"MIDWEST", "NORTHEAST", "WEST"}
               THEN 13
             ELSE IF dest_region = "WEST" THEN 11
             ELSE 9
      ELSE IF era = "1990s"
        THEN IF dest_region = "SOUTH" THEN 12
             ELSE IF dest_region = "WEST" THEN 11
             ELSE IF origin_region \in {"MIDWEST", "NORTHEAST"} /\ dest_region = "SOUTH"
               THEN 13
             ELSE 9
      ELSE IF era = "2020s"
        THEN IF dest_region = "SOUTH" THEN 13
             ELSE IF origin = "CALIFORNIA" THEN 12
             ELSE IF origin_region \in {"NORTHEAST", "MIDWEST"}
                       /\ dest_region \in {"SOUTH", "WEST"} THEN 12
             ELSE 9
      ELSE 10

\* int((origin_pop ** 0.8 * dest_pop ** 0.6) / 50000) of each pair of the tables
base_value ==
  ("1960s" :>
     (("CALIFORNIA" :> (("TEXAS" :> 176579) @@ ("NEW YORK" :> 247195) @@ ("OHIO" :> 177977)))
        @@ ("TEXAS" :> (("CALIFORNIA" :> 159932) @@ ("NEW YORK" :> 166349)
                          @@ ("OHIO" :> 119769)))
        @@ ("NEW YORK" :> (("CALIFORNIA" :> 250458) @@ ("TEXAS" :> 186089)
                             @@ ("OHIO" :> 187562)))
        @@ ("OHIO" :> (("CALIFORNIA" :> 161622) @@ ("TEXAS" :> 120084)
                         @@ ("NEW YORK" :> 168107)))))
    @@ ("1990s" :>
     (("CALIFORNIA" :> (("TEXAS" :> 414953) @@ ("NEW YORK" :> 429498) @@ ("OHIO" :> 317048)
                          @@ ("NEVADA" :> 84692)))
        @@ ("TEXAS" :> (("CALIFORNIA" :> 370931) @@ ("NEW YORK" :> 274244)
                          @@ ("OHIO" :> 202442) @@ ("NEVADA" :> 54077)))
        @@ ("NEW YORK" :> (("CALIFORNIA" :> 388368) @@ ("TEXAS" :> 277412)
                             @@ ("OHIO" :> 211959) @@ ("NEVADA" :> 56620)))
        @@ ("OHIO" :> (("CALIFORNIA" :> 259096) @@ ("TEXAS" :> 185073)
                         @@ ("NEW YORK" :> 191560) @@ ("NEVADA" :> 37773)))
        @@ ("NEVADA" :> (("CALIFORNIA" :> 44574) @@ ("TEXAS" :> 31839)
                           @@ ("NEW YORK" :> 32955) @@ ("OHIO" :> 24327)))))
    @@ ("2020s" :>
     (("CALIFORNIA" :> (("TEXAS" :> 720089) @@ ("NEW YORK" :> 577923) @@ ("OHIO" :> 418562)
                          @@ ("NEVADA" :> 187866)))
        @@ ("TEXAS" :> (("CALIFORNIA" :> 677481) @@ ("NEW YORK" :> 452808)
                          @@ ("OHIO" :> 327947) @@ ("NEVADA" :> 147194)))
        @@ ("NEW YORK" :> (("CALIFORNIA" :> 505292) @@ ("TEXAS" :> 420799)
                             @@ ("OHIO" :> 244596) @@ ("NEVADA" :> 109783)))
        @@ ("OHIO" :> (("CALIFORNIA" :> 328646) @@ ("TEXAS" :> 273692)
                         @@ ("NEW YORK" :> 219657) @@ ("NEVADA" :> 71404)))
        @@ ("NEVADA" :> (("CALIFORNIA" :> 112939) @@ ("TEXAS" :> 94054)
                           @@ ("NEW YORK" :> 75485) @@ ("OHIO" :> 54670)))))

\* random.uniform(1.8, 2.5), its two end points, in hundredths
NeighborDraw == << 180, 250 >>

\* random.uniform(0.7, 1.3), its two end points, in hundredths
EconomicDraw == << 70, 130 >>

min_values == ("1960s" :> 50) @@ ("1990s" :> 75) @@ ("2020s" :> 100)

\* value * factor with the factor in hundredths; the part below one is dropped
\* at each product, where the code drops it once, in the final int()
Times(value, factor) == (value * factor) \div 100

\* the migration value of a pair under the two draws
generate_migration_value(origin, destination, era, neighbor_draw, economic_draw) ==
  IF origin = destination THEN 0
  ELSE
    LET b0 == base_value[era][origin][destination]
        b1 == IF destination \in NEIGHBORING_STATES[origin] THEN Times(b0, neighbor_draw)
              ELSE b0
        b2 == IF destination \in DOMAIN ALL_DESTINATION_MULTIPLIERS[era]
                THEN Times(b1, ALL_DESTINATION_MULTIPLIERS[era][destination])
              ELSE b1
        b3 == IF era \in DOMAIN ORIGIN_PENALTIES /\ origin \in DOMAIN ORIGIN_PENALTIES[era]
                THEN Times(b2, ORIGIN_PENALTIES[era][origin])
              ELSE b2
        b4 == Times(b3, 10 * calculate_distance_multiplier(origin, destination, era))
        b5 == Times(b4, economic_draw)
        min_value == IF era \in DOMAIN min_values THEN min_values[era] ELSE 100
    IN  IF b5 > min_value THEN b5 ELSE min_value

\* the first digits decimal places of remainder / divisor, as an integer
RECURSIVE Places(_, _, _)
Places(remainder, divisor, digits) ==
  IF digits = 0 THEN 0
  ELSE LET t == remainder * 10
       IN  (t \div divisor) * (10 ^ (digits - 1)) + Places(t % divisor, divisor, digits - 1)

\* int((absolute_value / origin_population) * 100000)
rate_value(absolute_value, origin_population) ==
  (absolute_value \div origin_population) * 100000
    + Places(absolute_value % origin_population, origin_population, 5)

\* variant: the records of a state paired with itself are kept
PairKept_NoDistinctTest(origin, destination, era) ==
  /\ origin \in DOMAIN ALL_STATE_POPULATIONS[era]
  /\ destination \in DOMAIN ALL_STATE_POPULATIONS[era]

\* the two tests of the inner loop on a pair of states
PairKept(origin, destination, era) ==
  /\ origin # destination
  /\ origin \in DOMAIN ALL_STATE_POPULATIONS[era]
  /\ destination \in DOMAIN ALL_STATE_POPULATIONS[era]

\* the arguments of calculate_distance_multiplier: the states of the tables, a
\* state of no region, the eras and an era the function does not know
MultiplierStates == { states[k] : k \in DOMAIN states } \cup { "PUERTO RICO" }

MultiplierEras == { Eras[k] : k \in DOMAIN Eras } \cup { "1980s" }

MigrationInit ==
  /\ pc = "migrate"
  /\ solution_flights = << >>
  /\ interest_flights = << >>
  /\ filler_flights = << >>
  /\ flight_id = 1
  /\ loop_idx = 1
  /\ num_flights = 0
  /\ flights_done = 0
  /\ route = NoRoute
  /\ flight_time = 0
  /\ attempt = 0
  /\ start_flight_id = 0
  /\ all_flights = << >>
  /\ puzzle = puzzle_description
  /\ solutions = << >>
  /\ existing_flights = << >>
  /\ candidate = NoFlight
  /\ verdict = FALSE
  /\ varied = 0
  /\ analysis = NoAnalysis
  /\ call = NoCall

\* no call of generate_migration_data is under way
MigrationIdle ==
  IF call.function = "generate_migration_data" THEN call.returned ELSE TRUE

\* a call calculate_distance_multiplier(origin, destination, era)
CallDistanceMultiplier ==
  /\ pc = "migrate"
  /\ MigrationIdle
  /\ \E origin, destination \in MultiplierStates, era \in MultiplierEras :
       call' = [ function |-> "calculate_distance_multiplier",
                 origin |-> origin,
                 destination |-> destination,
                 era |-> era,
                 result |-> calculate_distance_multiplier(origin, destination, era) ]
  /\ varied' = 0
  /\ UNCHANGED << pc, solution_flights, interest_flights, filler_flights, flight_id,
                  loop_idx, num_flights, flights_done, route, flight_time, attempt,
                  start_flight_id, all_flights, puzzle, solutions, existing_flights,
                  candidate, verdict, analysis >>

\* generate_migration_data(era) is entered: the two lists are empty and the
\* loops stand at the first pair of states
CallGenerateMigrationData ==
  /\ pc = "migrate"
  /\ MigrationIdle
  /\ \E k \in DOMAIN Eras :
       call' = [ function |-> "generate_migration_data",
                 era |-> Eras[k],
                 origin |-> 1,
                 destination |-> 1,
                 absolute_migrations |-> << >>,
                 rate_migrations |-> << >>,
                 returned |-> FALSE ]
  /\ varied' = 0
  /\ UNCHANGED << pc, solution_flights, interest_flights, filler_flights, flight_id,
                  loop_idx, num_flights, flights_done, route, flight_time, attempt,
                  start_flight_id, all_flights, puzzle, solutions, existing_flights,
                  candidate, verdict, analysis >>

\* one pass of the inner loop: a kept pair gets one record in each list; after
\* the last pair the function returns
MigrationPair ==
  /\ pc = "migrate"
  /\ call.function = "generate_migration_data"
  /\ ~ call.returned
  /\ LET origin == states[call.origin]
         destination == states[call.destination]
         last == call.destination = Len(states)
         stepped == [ call EXCEPT
                        !.origin = IF last THEN @ + 1 ELSE @,
                        !.destination = IF last THEN 1 ELSE @ + 1,
                        !.returned = last /\ call.origin = Len(states) ]
     IN  IF PairKept(origin, destination, call.era)
           THEN \E n \in DOMAIN NeighborDraw, e \in DOMAIN EconomicDraw :
                  LET drawn == (IF n = 1 \/ destination \notin NEIGHBORING_STATES[origin]
                                  THEN 0 ELSE 1)
                                 + (IF e = 1 THEN 0 ELSE 1)
                      absolute_value ==
                        generate_migration_value(origin, destination, call.era,
                                                 NeighborDraw[n], EconomicDraw[e])
                      origin_population == ALL_STATE_POPULATIONS[call.era][origin]
                  IN  /\ n = 1 \/ destination \in NEIGHBORING_STATES[origin]
                      /\ varied + drawn <= MaxVaried
                      /\ varied' = varied + drawn
                      /\ call' = [ stepped EXCEPT
                                     !.absolute_migrations =
                                        Append(@, [ origin |-> origin,
                                                    destination |-> destination,
                                                    value |-> absolute_value ]),
                                     !.rate_migrations =
                                        Append(@, [ origin |-> origin,
                                                    destination |-> destination,
                                                    value |-> rate_value(absolute_value,
                                                                origin_population) ]) ]
           ELSE /\ call' = stepped
                /\ varied' = varied
  /\ UNCHANGED << pc, solution_flights, interest_flights, filler_flights, flight_id,
                  loop_idx, num_flights, flights_done, route, flight_time, attempt,
                  start_flight_id, all_flights, puzzle, solutions, existing_flights,
                  candidate, verdict, analysis >>

MigrationNext == CallDistanceMultiplier \/ CallGenerateMigrationData \/ MigrationPair

MigrationSpec == MigrationInit /\ [][MigrationNext]_vars

(***************************************************************************)
(* Properties.                                                             *)
(***************************************************************************)
\* a flight meets an agent's date, budget and airline constraints
ValidFor(f, agent) ==
  /\ f.date \in agent.available_dates
  /\ f.price <= agent.max_budget
  /\ f.airline \in agent.preferred_airlines

\* the joint validity predicate of an ordered pair (f1 for agent A, f2 for agent
\* B) as the solver pairs flights: f1 leaves A's origin, f2 leaves B's origin,
\* both reach the same destination on the same date, and each meets its agent's
\* constraints
Joint(f1, f2, originA, agentA, originB, agentB) ==
  /\ f1.origin = originA
  /\ f2.origin = originB
  /\ f1.destination = f2.destination
  /\ f1.date = f2.date
  /\ ValidFor(f1, agentA)
  /\ ValidFor(f2, agentB)

\* the number of indices of a sequence that satisfy a test
CountOf(seq, Test(_)) == Cardinality({ i \in 1..Len(seq) : Test(seq[i]) })

\* the catalog as generated so far, in catalog order
CatalogSoFar == solution_flights \o interest_flights \o filler_flights

\* the flights of the two bulk generators alone
PopulatorFlights == interest_flights \o filler_flights

Designated == Range(PUZZLE_CONFIG.solution_destinations)

\* the designated destinations whose loop iteration has completed
SolutionsDone ==
  { PUZZLE_CONFIG.solution_destinations[k] :
      k \in { n \in 1..Len(PUZZLE_CONFIG.solution_destinations) :
                n < loop_idx \/ pc # "solution" } }

\* C1: over the complete generated catalog find_solutions returns exactly 6
\* solutions for each of SIN, BKK and DEL and exactly 18 solutions in total.
C1_EighteenSolutions ==
  pc = "done" =>
    /\ Len(solutions) = 18
    /\ \A d \in {"SIN", "BKK", "DEL"} :
         CountOf(solutions, LAMBDA sol : sol.destination = d) = 6

\* C1 witness: the solver has run over a catalog in which a bulk-generated
\* flight to a designated destination is valid for agent A on a date both
\* agents are available.
C1_Witness ==
  /\ pc = "done"
  /\ Len(solutions) = 18
  /\ \E i \in 1..Len(interest_flights) :
       /\ interest_flights[i].destination = "DEL"
       /\ ValidFor(interest_flights[i], PUZZLE_CONFIG.friend_a)
       /\ interest_flights[i].date \in PUZZLE_CONFIG.friend_b.available_dates

\* C2: for each designated (destination, date), among the solution flights to
\* that destination on that date exactly 2 are valid for agent A, exactly 4 for
\* agent B and exactly 2 for both.
C2_SetSizes ==
  \A sol \in SolutionsDone :
    LET here == { i \in 1..Len(solution_flights) :
                    /\ solution_flights[i].destination = sol.airport
                    /\ solution_flights[i].date = sol.date }
        A == { i \in here : ValidFor(solution_flights[i], PUZZLE_CONFIG.friend_a) }
        B == { i \in here : ValidFor(solution_flights[i], PUZZLE_CONFIG.friend_b) }
    IN  /\ Cardinality(A) = 2
        /\ Cardinality(B) = 4
        /\ Cardinality(A \cap B) = 2

\* C2 witness: all three designated destinations are generated and the agent-B-only
\* SQ flight of one of them took the upper end of its price range.
C2_Witness ==
  /\ Len(solution_flights) = 30
  /\ \E i \in 1..Len(solution_flights) :
       /\ solution_flights[i].airline = "SQ"
       /\ solution_flights[i].price = 800 * Cents

\* C3: no ordered pair of distinct flights of the two bulk generators alone
\* satisfies the joint validity predicate at a non-designated destination/date.
C3_NoUnintendedPair ==
  LET flights == PopulatorFlights
      first == { i \in 1..Len(flights) :
                   /\ flights[i].origin = PUZZLE_CONFIG.friend_a.origin
                   /\ [airport |-> flights[i].destination, date |-> flights[i].date]
                        \notin Designated }
      second == { j \in 1..Len(flights) :
                    flights[j].origin = PUZZLE_CONFIG.friend_b.origin }
  IN  \A i \in first, j \in second :
        i # j => ~Joint(flights[i], flights[j],
                        PUZZLE_CONFIG.friend_a.origin, PUZZLE_CONFIG.friend_a,
                        PUZZLE_CONFIG.friend_b.origin, PUZZLE_CONFIG.friend_b)

\* C3 witness: the bulk generators have produced a flight valid for agent A and
\* another valid for agent B, both on dates available to both agents.
C3_Witness ==
  \E i, j \in 1..Len(PopulatorFlights) :
    LET overlap == PUZZLE_CONFIG.friend_a.available_dates
                      \cap PUZZLE_CONFIG.friend_b.available_dates
    IN  /\ i # j
        /\ PopulatorFlights[i].origin = PUZZLE_CONFIG.friend_a.origin
        /\ PopulatorFlights[j].origin = PUZZLE_CONFIG.friend_b.origin
        /\ PopulatorFlights[i].date \in overlap
        /\ PopulatorFlights[j].date \in overlap
        /\ ValidFor(PopulatorFlights[i], PUZZLE_CONFIG.friend_a)
        /\ ValidFor(PopulatorFlights[j], PUZZLE_CONFIG.friend_b)

\* C4: every solution find_solutions returns, for any catalog and puzzle, is made
\* of two flights of the catalog with different ids that share the solution's
\* date and destination, leave their users' origins, and meet their users'
\* availability, budget and airline constraints.
C4_SolverSound ==
  pc = "solved" =>
    \A k \in 1..Len(solutions) :
      \E i, j \in 1..Len(all_flights) :
        LET sol == solutions[k]
            f1 == all_flights[i]
            f2 == all_flights[j]
        IN  /\ sol.user_1_flight
                 = [ id |-> f1.id, price |-> f1.price, airline |-> f1.airline ]
            /\ sol.user_2_flight
                 = [ id |-> f2.id, price |-> f2.price, airline |-> f2.airline ]
            /\ f1.date = sol.date
            /\ f2.date = sol.date
            /\ sol.date \in puzzle.user_1.available_dates
            /\ sol.date \in puzzle.user_2.available_dates
            /\ f1.price <= puzzle.user_1.max_budget
            /\ f2.price <= puzzle.user_2.max_budget
            /\ f1.airline \in puzzle.user_1.preferred_airlines
            /\ f2.airline \in puzzle.user_2.preferred_airlines
            /\ f1.destination = sol.destination
            /\ f2.destination = sol.destination
            /\ f1.origin = puzzle.user_1.origin_airport
            /\ f2.origin = puzzle.user_2.origin_airport
            /\ f1.id # f2.id

\* C4 witness: the solver returned a solution for the puzzle whose users leave
\* from different airports.
C4_Witness ==
  /\ pc = "solved"
  /\ puzzle = other_puzzle
  /\ Len(solutions) >= 1

UniqueIds(flights) ==
  \A i, j \in 1..Len(flights) : i # j => flights[i].id # flights[j].id

\* C5: over a catalog with unique ids, each ordered pair of flights with different
\* ids that satisfies the joint validity predicate appears exactly once among the
\* solutions, and no other pair appears.
C5_SolverComplete ==
  (pc = "solved" /\ UniqueIds(all_flights)) =>
    /\ \A i, j \in 1..Len(all_flights) :
         LET f1 == all_flights[i]
             f2 == all_flights[j]
             wanted == /\ f1.id # f2.id
                       /\ Joint(f1, f2, puzzle.user_1.origin_airport, puzzle.user_1,
                                puzzle.user_2.origin_airport, puzzle.user_2)
             Same(sol) == /\ sol.user_1_flight.id = f1.id
                          /\ sol.user_2_flight.id = f2.id
         IN  CountOf(solutions, Same) = IF wanted THEN 1 ELSE 0
    /\ \A k \in 1..Len(solutions) :
         \E i, j \in 1..Len(all_flights) :
           /\ solutions[k].user_1_flight.id = all_flights[i].id
           /\ solutions[k].user_2_flight.id = all_flights[j].id

\* C5 witness: two flights with unique ids, each valid for both users, give the
\* two ordered pairs.
C5_Witness ==
  /\ pc = "solved"
  /\ UniqueIds(all_flights)
  /\ Len(all_flights) = 2
  /\ Len(solutions) = 2

\* C6: the ids of the catalog are positive, pairwise different and strictly
\* increasing in catalog order, and the counter is beyond every id handed out.
C6_IdsIncreasing ==
  LET catalog == CatalogSoFar IN
  /\ \A i \in 1..Len(catalog) :
       /\ catalog[i].id >= 1
       /\ catalog[i].id < flight_id
       /\ i < Len(catalog) => catalog[i].id < catalog[i + 1].id
  /\ pc \in {"solve", "done"} => all_flights = catalog

\* C6 witness: the assembled catalog holds flights of all three generators.
C6_Witness ==
  /\ pc = "done"
  /\ Len(solution_flights) > 0
  /\ Len(interest_flights) > 0
  /\ Len(filler_flights) > 0
  /\ Len(all_flights) = flight_id - 1

\* the number of solution flights to each designated destination is n
FlightsPerDesignated(n) ==
  \A sol \in SolutionsDone :
    CountOf(solution_flights, LAMBDA f : f.destination = sol.airport) = n

\* C7 as stated: generate_solution_flights emits exactly 8 flights for each
\* designated (destination, date).
C7_EightFlights == FlightsPerDesignated(8)

\* C7: generate_solution_flights emits exactly 10 flights for each designated
\* (destination, date): 2 shared, 2 for agent B only and 6 decoys.
C7_TenFlights ==
  /\ FlightsPerDesignated(10)
  /\ pc # "solution" =>
       Len(solution_flights) = 10 * Len(PUZZLE_CONFIG.solution_destinations)

\* C7 witness: generate_solution_flights has returned.
C7_Witness ==
  /\ pc = "interest_route"
  /\ loop_idx = 1
  /\ Len(solution_flights) = 30

\* the candidate is valid for one friend and an accepted flight from the other
\* friend's origin to the same destination on the same date is valid for the other
Completes(c, one, other, flights) ==
  /\ ValidFor(c, one)
  /\ \E i \in 1..Len(flights) :
       /\ flights[i].origin = other.origin
       /\ flights[i].destination = c.destination
       /\ flights[i].date = c.date
       /\ ValidFor(flights[i], other)

\* C8: for a candidate from the agents' origin the guard returns True both when
\* the candidate is valid for A and an accepted flight completes it for B, and
\* when the candidate is valid for B and an accepted flight completes it for A.
C8_GuardSymmetric ==
  (pc = "checked" /\ candidate.origin = "FCO") =>
    /\ Completes(candidate, PUZZLE_CONFIG.friend_a, PUZZLE_CONFIG.friend_b,
                 existing_flights) => verdict
    /\ Completes(candidate, PUZZLE_CONFIG.friend_b, PUZZLE_CONFIG.friend_a,
                 existing_flights) => verdict

\* C8 witness: a candidate valid for A only was turned down because an accepted
\* flight valid for B completes it.
C8_Witness ==
  /\ pc = "checked"
  /\ candidate.origin = "FCO"
  /\ candidate.airline = "LH"
  /\ Completes(candidate, PUZZLE_CONFIG.friend_a, PUZZLE_CONFIG.friend_b,
               existing_flights)
  /\ verdict

\* the candidate alone lies in both agents' date, airline and budget overlaps
InOverlaps(c) == ValidFor(c, PUZZLE_CONFIG.friend_a) /\ ValidFor(c, PUZZLE_CONFIG.friend_b)

\* C9 as stated: against an empty accepted list the guard rejects a candidate
\* exactly when it lies in both agents' date, airline and budget overlaps.
C9_OverlapAnyOrigin ==
  (pc = "checked" /\ existing_flights = << >>) => (verdict <=> InOverlaps(candidate))

\* C9: against an empty accepted list the guard rejects a candidate exactly when
\* it leaves from FCO and lies in both agents' date, airline and budget overlaps.
C9_OverlapFromFCO ==
  (pc = "checked" /\ existing_flights = << >>) =>
    (verdict <=> (candidate.origin = "FCO" /\ InOverlaps(candidate)))

\* C9 witness: a candidate from FCO in both overlaps was rejected against the
\* empty list.
C9_Witness ==
  /\ pc = "checked"
  /\ existing_flights = << >>
  /\ candidate.origin = "FCO"
  /\ InOverlaps(candidate)
  /\ verdict

\* C10: when the guard returns False for a candidate c from the agents' origin
\* against a list L, find_solutions over L followed by c returns no solution
\* that involves c.
C10_GuardSound ==
  (pc = "checked" /\ candidate.origin = "FCO" /\ ~verdict) =>
    LET flights == Append(existing_flights, candidate) IN
    \A order \in Orders(Destinations(flights)) :
      \A sol \in Range(find_solutions(flights, puzzle_description, order)) :
        /\ sol.user_1_flight.id # candidate.id
        /\ sol.user_2_flight.id # candidate.id

\* C10 witness: the guard passed a candidate valid for A while the list holds a
\* flight valid for B to the same destination.
C10_Witness ==
  /\ pc = "checked"
  /\ candidate.origin = "FCO"
  /\ ~verdict
  /\ ValidFor(candidate, PUZZLE_CONFIG.friend_a)
  /\ \E i \in 1..Len(existing_flights) :
       /\ existing_flights[i].origin = "FCO"
       /\ existing_flights[i].destination = candidate.destination
       /\ ValidFor(existing_flights[i], PUZZLE_CONFIG.friend_b)

\* the number of interest flights on interest route number k
InterestCount(k) ==
  Cardinality({ i \in 1..Len(interest_flights) :
                  /\ interest_flights[i].origin = POINTS_OF_INTEREST[k].origin
                  /\ interest_flights[i].destination = POINTS_OF_INTEREST[k].destination })

InInterest == pc \in {"interest_route", "interest_flight", "interest_attempt"}

AfterInterest == pc \in {"filler", "filler_attempt", "solve", "done"}

\* the attempt counters stay within their maxima, every finished interest route
\* holds its drawn count of flights and the route in progress holds flights_done
C11_Counts ==
  /\ pc = "interest_attempt" => attempt <= InterestMaxAttempts
  /\ pc = "filler_attempt" => attempt <= FillerMaxAttempts
  /\ \A k \in 1..Len(POINTS_OF_INTEREST) :
       LET finished == \/ AfterInterest
                       \/ InInterest /\ k < loop_idx
           current == pc \in {"interest_flight", "interest_attempt"} /\ k = loop_idx
           latest == \/ AfterInterest /\ k = Len(POINTS_OF_INTEREST)
                     \/ pc = "interest_route" /\ k = loop_idx - 1
       IN  /\ finished => InterestCount(k) \in NumFlightsMin..NumFlightsMax
           /\ latest => InterestCount(k) = num_flights
           /\ current => InterestCount(k) = flights_done /\ flights_done < num_flights
           /\ (~finished /\ ~current) => InterestCount(k) = 0

\* a step of the attempt loop either re-rolls (one more attempt, no flight) or
\* appends exactly one flight: a candidate that passed, or the fallback once the
\* maximum of attempts is reached
C11_Step ==
  /\ pc = "interest_attempt" =>
       \/ /\ attempt' = attempt + 1
          /\ attempt' <= InterestMaxAttempts
          /\ interest_flights' = interest_flights
          /\ pc' = pc
       \/ /\ Len(interest_flights') = Len(interest_flights) + 1
          /\ SubSeq(interest_flights', 1, Len(interest_flights)) = interest_flights
          /\ LET flight == interest_flights'[Len(interest_flights')] IN
             IF attempt < InterestMaxAttempts
               THEN ~InterestRejects(route, flight, interest_flights)
               ELSE flight.airline \in FallbackAirlines
          /\ pc' # pc
  /\ pc = "filler_attempt" =>
       \/ /\ attempt' = attempt + 1
          /\ attempt' <= FillerMaxAttempts
          /\ filler_flights' = filler_flights
          /\ pc' = pc
       \/ /\ Len(filler_flights') = Len(filler_flights) + 1
          /\ SubSeq(filler_flights', 1, Len(filler_flights)) = filler_flights
          /\ LET flight == filler_flights'[Len(filler_flights')] IN
             IF attempt < FillerMaxAttempts
               THEN ~FillerRejects(flight, filler_flights)
               ELSE flight.airline \in FallbackAirlines
          /\ pc' # pc

IsFallback(flight, r, time) ==
  /\ flight.airline \notin {"SQ", "LH", "EK"}
  /\ flight.airline \notin PUZZLE_CONFIG.friend_a.preferred_airlines
  /\ flight.airline \notin PUZZLE_CONFIG.friend_b.preferred_airlines
  /\ \E variation \in PriceVariation :
       flight.price = 2 * calculate_flight_price(
                            calculate_distance(r.origin, r.destination), time, variation)
  /\ flight.origin = r.origin
  /\ flight.destination = r.destination
  /\ ~ValidFor(flight, PUZZLE_CONFIG.friend_a)
  /\ ~ValidFor(flight, PUZZLE_CONFIG.friend_b)

\* a step taken once every attempt was rejected appends a fallback flight and
\* moves on to the next flight
C12_Step ==
  /\ (pc = "interest_attempt" /\ attempt = InterestMaxAttempts) =>
       /\ interest_flights' # interest_flights
       /\ IsFallback(interest_flights'[Len(interest_flights')], route, flight_time)
       /\ pc' \in {"interest_flight", "interest_route", "filler"}
  /\ (pc = "filler_attempt" /\ attempt = FillerMaxAttempts) =>
       /\ filler_flights' # filler_flights
       /\ IsFallback(filler_flights'[Len(filler_flights')], route, flight_time)
       /\ pc' = "filler"

\* no solution found over the finished catalog holds a flight of an airline
\* outside SQ, LH, EK
C12_NoFallbackInSolution ==
  pc = "done" =>
    \A k \in 1..Len(solutions) :
      /\ solutions[k].user_1_flight.airline \in {"SQ", "LH", "EK"}
      /\ solutions[k].user_2_flight.airline \in {"SQ", "LH", "EK"}

\* C12: when every attempt for a flight is rejected, generation appends a fallback
\* flight whose airline is outside SQ, LH, EK and whose price is twice a
\* non-solution price; the fallback is valid for neither agent, takes part in no
\* solution, and generation continues with the next flight.
C12_Fallback == [][C12_Step]_vars /\ []C12_NoFallbackInSolution

\* C12 witness: the solver has run over a finished catalog that holds a fallback
\* flight of the interest generator, to a designated destination.
C12_Witness ==
  /\ pc = "done"
  /\ Len(solutions) > 0
  /\ \E i \in 1..Len(interest_flights) :
       /\ interest_flights[i].airline \notin {"SQ", "LH", "EK"}
       /\ interest_flights[i].destination = "BKK"

\* the multiset of the elements of a sequence
Multiset(seq) ==
  [ x \in Range(seq) |-> Cardinality({ i \in 1..Len(seq) : seq[i] = x }) ]

\* C13: two runs of find_solutions over the same catalog and puzzle return the
\* same multiset of solutions: a run under any iteration order of the
\* destinations returns the multiset of the run under first-appearance order.
C13_SameMultiset ==
  pc = "done" =>
    Multiset(solutions)
      = Multiset(find_solutions(all_flights, puzzle, RefOrder(all_flights)))

\* C13 witness: the run iterated the destinations in another order than first
\* appearance and returned the 18 solutions in another sequence.
C13_Witness ==
  /\ pc = "done"
  /\ Len(solutions) = 18
  /\ solutions # find_solutions(all_flights, puzzle, RefOrder(all_flights))

\* C14: at every point of filler generation no filler flight is on an interest
\* route or on a route from an agent's origin to a designated destination, every
\* filler flight has an origin different from its destination, and no route holds
\* more filler flights than the per-route cap.
C14_FillerRoutes ==
  \A i \in 1..Len(filler_flights) :
    LET f == filler_flights[i]
        r == [origin |-> f.origin, destination |-> f.destination]
    IN  /\ r \notin Range(POINTS_OF_INTEREST)
        /\ \A sol \in Range(PUZZLE_CONFIG.solution_destinations) :
             /\ r # [origin |-> PUZZLE_CONFIG.friend_a.origin, destination |-> sol.airport]
             /\ r # [origin |-> PUZZLE_CONFIG.friend_b.origin, destination |-> sol.airport]
        /\ f.origin # f.destination
        /\ Cardinality({ j \in 1..Len(filler_flights) :
                           /\ filler_flights[j].origin = f.origin
                           /\ filler_flights[j].destination = f.destination }) <= RouteCap

\* C14 witness: a route holds as many filler flights as the cap allows and the
\* generator has gone on to append a flight on another route.
C14_Witness ==
  \E i, j \in 1..Len(filler_flights) :
    /\ i < j
    /\ Cardinality({ k \in 1..Len(filler_flights) :
                       /\ filler_flights[k].origin = filler_flights[i].origin
                       /\ filler_flights[k].destination = filler_flights[i].destination })
         = RouteCap
    /\ \/ filler_flights[j].origin # filler_flights[i].origin
       \/ filler_flights[j].destination # filler_flights[i].destination

\* the sum of the lengths of the groups of a grouping
RECURSIVE SumOfSizes(_, _)
SumOfSizes(groups, keys) ==
  IF keys = {} THEN 0
  ELSE LET k == CHOOSE x \in keys : TRUE
       IN  Len(groups[k]) + SumOfSizes(groups, keys \ {k})

\* a grouping partitions the solution list: its keys are the keys of the
\* solutions, the group of a key is the list of the solutions of that key in
\* list order, no group is empty and the sizes sum to the length of the list
Partitions(groups, grouping, sols) ==
  /\ DOMAIN groups = { GroupKey(grouping, sols[i]) : i \in 1..Len(sols) }
  /\ \A k \in DOMAIN groups :
       /\ groups[k] = SelectSeq(sols, LAMBDA sol : GroupKey(grouping, sol) = k)
       /\ groups[k] # << >>
  /\ SumOfSizes(groups, DOMAIN groups) = Len(sols)

\* C15: for any solution list, total_count is the length of the list and each of
\* the three groupings (by destination, by date, by airline combination) holds
\* every solution in exactly one group, under its own key, in list order, with
\* no empty group and sizes that sum to total_count.
C15_AnalyzePartitions ==
  pc = "analyzed" =>
    /\ analysis.total_count = Len(solutions)
    /\ Partitions(analysis.by_destination, "by_destination", solutions)
    /\ Partitions(analysis.by_date, "by_date", solutions)
    /\ Partitions(analysis.by_airline_combo, "by_airline_combo", solutions)

\* C15 witness: a list of two solutions that share the destination and differ in
\* date and airline combination was analysed.
C15_Witness ==
  /\ pc = "analyzed"
  /\ Len(solutions) = 2
  /\ Cardinality(DOMAIN analysis.by_destination) = 1
  /\ Cardinality(DOMAIN analysis.by_date) = 2
  /\ "LH-EK" \in DOMAIN analysis.by_airline_combo
  /\ "SQ-SQ" \in DOMAIN analysis.by_airline_combo

\* C16: calculate_flight_price returns a value in [550, 680] with is_solution=True,
\* and a value in [max(150, 0.08 x distance), 2000] with is_solution=False, for
\* every distance, flight time and random variation.
C16_PriceRange ==
  call.function = "calculate_flight_price" =>
    IF call.is_solution
      THEN /\ 550 * Cents <= call.result
           /\ call.result <= 680 * Cents
      ELSE /\ Max2(150 * Cents, 8 * call.distance_km) <= call.result
           /\ call.result <= 2000 * Cents

\* C16 witness: a non-solution call over a long distance returned the cap.
C16_Witness ==
  /\ call.function = "calculate_flight_price"
  /\ ~call.is_solution
  /\ call.distance_km > 10000
  /\ call.result = 2000 * Cents

\* C17: the third flight emitted for each designated destination, the one meant
\* for agent B only by price, carries SQ on the designated date at a price
\* strictly above agent A's budget and strictly below agent B's, so it is valid
\* for agent B and not for agent A.
C17_BudgetExcluded ==
  \A k \in 1..Len(PUZZLE_CONFIG.solution_destinations) :
    Len(solution_flights) >= 10 * k =>
      LET sol == PUZZLE_CONFIG.solution_destinations[k]
          f == solution_flights[10 * (k - 1) + 3]
      IN  /\ f.airline = "SQ"
          /\ f.destination = sol.airport
          /\ f.date = sol.date
          /\ f.price > PUZZLE_CONFIG.friend_a.max_budget
          /\ f.price < PUZZLE_CONFIG.friend_b.max_budget
          /\ ValidFor(f, PUZZLE_CONFIG.friend_b)
          /\ ~ValidFor(f, PUZZLE_CONFIG.friend_a)

\* C17 witness: the flight took the lower end of its price range for the first
\* destination and the upper end for the third.
C17_Witness ==
  /\ Len(solution_flights) = 30
  /\ solution_flights[3].price = 705 * Cents
  /\ solution_flights[23].price = 800 * Cents

\* the friend each of the six decoys is generated for, in the order of emission
DecoyFriend ==
  << PUZZLE_CONFIG.friend_a, PUZZLE_CONFIG.friend_b, PUZZLE_CONFIG.friend_a,
     PUZZLE_CONFIG.friend_b, PUZZLE_CONFIG.friend_a, PUZZLE_CONFIG.friend_a >>

\* the clauses of the validity predicate that a flight fails in the role of a
\* friend: the date is not available to both friends, the price exceeds the
\* friend's budget, the airline is not preferred by the friend
FailedClauses(f, friend) ==
  (IF f.date \in PUZZLE_CONFIG.friend_a.available_dates
                   \cap PUZZLE_CONFIG.friend_b.available_dates
     THEN {} ELSE {"date"})
  \cup (IF f.price <= friend.max_budget THEN {} ELSE {"budget"})
  \cup (IF f.airline \in friend.preferred_airlines THEN {} ELSE {"airline"})

\* C18: every decoy emitted by generate_solution_flights fails exactly one clause
\* of the validity predicate (date availability, budget or preferred airline)
\* for the friend it is generated for, and satisfies the other two.
C18_DecoysFailOne ==
  \A k \in 1..Len(PUZZLE_CONFIG.solution_destinations) :
    Len(solution_flights) >= 10 * k =>
      \A j \in 1..6 :
        Cardinality(FailedClauses(solution_flights[10 * (k - 1) + 4 + j],
                                  DecoyFriend[j])) = 1

\* C18 witness: the decoys of the three destinations are emitted and one decoy 5
\* drew its largest surcharge.
C18_Witness ==
  /\ Len(solution_flights) = 30
  /\ \E k \in 0..2 :
       solution_flights[10 * k + 9].price
          = PUZZLE_CONFIG.friend_a.max_budget + 150 * Cents

\* C19: calculate_distance is symmetric: the distance from a to b equals the
\* distance from b to a for every pair of airports.
C19_DistanceSymmetric ==
  call.function = "calculate_distance" => call.result = call.reverse

\* C19 witness: the distance between two airports of different hemispheres was
\* computed in both directions.
C19_Witness ==
  /\ call.function = "calculate_distance"
  /\ call.origin = "FCO"
  /\ call.destination = "GRU"
  /\ call.result > 9000
  /\ call.result < 10000

\* the positions in the catalog of the flights from the origin to the destination
\* on date d that meet the agent's budget and airlines, d being available to both
\* agents
FlightsFor(flights, origin, destination, d, agent, other) ==
  { i \in 1..Len(flights) :
      /\ flights[i].origin = origin
      /\ flights[i].destination = destination
      /\ flights[i].date = d
      /\ d \in other.available_dates
      /\ ValidFor(flights[i], agent) }

\* C20: over a catalog with unique ids and two agents leaving the same origin, the
\* number of solutions to a destination on a date d is |A_d| * |B_d| - |A_d \cap B_d|,
\* where A_d and B_d are the flights to the destination on d that suit agent A and
\* agent B.
C20_SolutionCount ==
  ( /\ pc = "solved"
    /\ UniqueIds(all_flights)
    /\ puzzle.user_1.origin_airport = puzzle.user_2.origin_airport ) =>
    \A destination \in Range(airports) :
      \A d \in puzzle.user_1.available_dates \cup puzzle.user_2.available_dates
                 \cup { all_flights[i].date : i \in 1..Len(all_flights) } :
        LET origin == puzzle.user_1.origin_airport
            A_d == FlightsFor(all_flights, origin, destination, d,
                              puzzle.user_1, puzzle.user_2)
            B_d == FlightsFor(all_flights, origin, destination, d,
                              puzzle.user_2, puzzle.user_1)
            At(sol) == sol.destination = destination /\ sol.date = d
        IN  CountOf(solutions, At)
              = Cardinality(A_d) * Cardinality(B_d) - Cardinality(A_d \cap B_d)

\* C20 witness: a solved catalog with unique ids in which a flight suits both
\* agents and pairs with another flight.
C20_Witness ==
  /\ pc = "solved"
  /\ UniqueIds(all_flights)
  /\ puzzle.user_1.origin_airport = puzzle.user_2.origin_airport
  /\ Len(solutions) > 0
  /\ \E i \in 1..Len(all_flights) :
       LET f == all_flights[i]
       IN  /\ f.origin = puzzle.user_1.origin_airport
           /\ f.date \in puzzle.user_1.available_dates
           /\ f.date \in puzzle.user_2.available_dates
           /\ ValidFor(f, puzzle.user_1)
           /\ ValidFor(f, puzzle.user_2)

\* the flights at positions i and j of a list form a solution, in this order, as
\* the solver pairs flights
PairAt(flights, i, j) ==
  /\ i # j
  /\ Joint(flights[i], flights[j], PUZZLE_CONFIG.friend_a.origin, PUZZLE_CONFIG.friend_a,
           PUZZLE_CONFIG.friend_b.origin, PUZZLE_CONFIG.friend_b)

\* C21 as stated: generation ends with two flights of the bulk generators, added
\* one after the other and neither a fallback, that together form a solution.
C21_PairEscapesGuard ==
  pc \in {"solve", "done"} =>
    \E i \in 1..(Len(PopulatorFlights) - 1) :
      /\ PopulatorFlights[i].airline \notin FallbackAirlines
      /\ PopulatorFlights[i + 1].airline \notin FallbackAirlines
      /\ PairAt(PopulatorFlights, i, i + 1) \/ PairAt(PopulatorFlights, i + 1, i)

\* C21, amended: in no order of generation do two flights of the bulk generators
\* form a solution together, whether added one after the other or not: the later
\* of the two is checked against a list that holds the earlier one.
C21_NoPairEscapes ==
  LET flights == PopulatorFlights
      forA == { i \in 1..Len(flights) :
                  /\ flights[i].origin = PUZZLE_CONFIG.friend_a.origin
                  /\ ValidFor(flights[i], PUZZLE_CONFIG.friend_a) }
      forB == { j \in 1..Len(flights) :
                  /\ flights[j].origin = PUZZLE_CONFIG.friend_b.origin
                  /\ ValidFor(flights[j], PUZZLE_CONFIG.friend_b) }
  IN  \A i \in forA, j \in forB : ~PairAt(flights, i, j)

\* C21 witness: a flight valid for agent B on a date both agents are available
\* was accepted, and the flight added right after it on the same route is a
\* fallback: every candidate that would have completed the pair was rejected.
C21_Witness ==
  \E i \in 1..(Len(interest_flights) - 1) :
    LET first == interest_flights[i]
        second == interest_flights[i + 1]
    IN  /\ ValidFor(first, PUZZLE_CONFIG.friend_b)
        /\ first.date \in PUZZLE_CONFIG.friend_a.available_dates
        /\ second.destination = first.destination
        /\ second.date = first.date
        /\ second.airline \in FallbackAirlines

\* C22: on an interest route from an agent's origin to a designated destination,
\* every interest flight dated on that destination's designated date is a
\* fallback flight, of an airline outside SQ, LH, EK; an accepted candidate never
\* carries that date.
C22_DesignatedDateReserved ==
  \A i \in 1..Len(interest_flights) :
    LET f == interest_flights[i] IN
    ( /\ f.origin \in {PUZZLE_CONFIG.friend_a.origin, PUZZLE_CONFIG.friend_b.origin}
      /\ [airport |-> f.destination, date |-> f.date] \in Designated )
      => f.airline \notin {"SQ", "LH", "EK"}

\* C22 witness: an interest route to a designated destination holds a fallback
\* flight on the designated date and an accepted flight on another date.
C22_Witness ==
  \E i, j \in 1..Len(interest_flights) :
    LET f == interest_flights[i]
        g == interest_flights[j]
    IN  /\ [airport |-> f.destination, date |-> f.date] \in Designated
        /\ f.airline \in FallbackAirlines
        /\ g.destination = f.destination
        /\ g.date # f.date
        /\ g.airline \in {"SQ", "LH", "EK"}

\* C23: when the solution and interest flights number at most target_total,
\* generate_filler_flights returns exactly target_total - start_flight_id + 1
\* flights, the finished catalog holds exactly target_total flights, and the
\* flight at position i has id i.
C23_CatalogSize ==
  ( /\ pc \in {"solve", "done"}
    /\ Len(solution_flights) + Len(interest_flights) <= target_total ) =>
    /\ Len(filler_flights) = target_total - start_flight_id + 1
    /\ Len(all_flights) = target_total
    /\ \A i \in 1..Len(all_flights) : all_flights[i].id = i

\* C23 witness: a finished catalog in which an interest route drew the larger
\* count, so that the filler generator started later and returned fewer flights.
C23_Witness ==
  /\ pc = "solve"
  /\ Len(interest_flights) = Len(POINTS_OF_INTEREST) * NumFlightsMin + 1
  /\ Len(filler_flights) = FillerSlack - 1
  /\ Len(filler_flights) > 0
  /\ all_flights[target_total].id = target_total

\* generation has ended: the catalog is assembled
GenerationDone == pc \in {"solve", "done"} /\ Len(all_flights) = target_total

\* C24: the generation pipeline terminates; in particular the filler loop, which
\* retries without bound on a covered or full route, reaches its target count
\* under fair route selection, the uncovered routes having room for the filler
\* flights required.
C24_Terminates == <>GenerationDone

\* C24 witness: the filler loop reached its target after a route became full,
\* with room left on other uncovered routes.
C24_Witness ==
  /\ GenerationDone
  /\ Len(filler_flights) = FillerSlack
  /\ \E r \in SampledRoutes \ covered_routes : existing_count(r, filler_flights) = RouteCap
  /\ RouteCap * Cardinality(SampledRoutes \ covered_routes) >= FillerSlack

\* the positions of the decoys in solution_flights: the last six flights of each
\* iteration of ten
DecoyPositions == { i \in 1..Len(solution_flights) : (i - 1) % 10 >= 4 }

\* the flights a catalog could pair with a flight: same route and date, any
\* price band, any airline
PartnersOf(f) ==
  { Flight(0, f.origin, f.destination, price, f.date, airline) :
      price \in {1, PUZZLE_CONFIG.friend_a.max_budget, PUZZLE_CONFIG.friend_b.max_budget},
      airline \in Range(airlines) }

\* C25: no decoy flight of generate_solution_flights is either flight of a
\* solution, whatever the other flights of the catalog: each decoy satisfies
\* neither agent's constraints or lies on a date not available to both agents.
\* The pairing with every possible partner is tried while the decoys are being
\* generated, at each start of an interest route and when the run is done; the
\* list of decoys does not change in between.
C25_DecoysNeverInSolution ==
  /\ \A i \in DecoyPositions :
       LET decoy == solution_flights[i] IN
       \/ /\ ~ValidFor(decoy, PUZZLE_CONFIG.friend_a)
          /\ ~ValidFor(decoy, PUZZLE_CONFIG.friend_b)
       \/ decoy.date \notin PUZZLE_CONFIG.friend_a.available_dates
       \/ decoy.date \notin PUZZLE_CONFIG.friend_b.available_dates
  /\ pc \in {"solution", "interest_route", "done"} =>
       \A i \in DecoyPositions : \A other \in PartnersOf(solution_flights[i]) :
         /\ ~is_valid_solution(solution_flights[i], other, puzzle.user_1, puzzle.user_2)
         /\ ~is_valid_solution(other, solution_flights[i], puzzle.user_1, puzzle.user_2)
  /\ pc = "done" =>
       \A k \in 1..Len(solutions) : \A i \in DecoyPositions :
         /\ solutions[k].user_1_flight.id # solution_flights[i].id
         /\ solutions[k].user_2_flight.id # solution_flights[i].id

\* C25 witness: the solver has run over a catalog whose decoys include one priced
\* within agent A's budget on agent A's preferred airline, on a date agent A
\* alone is available.
C25_Witness ==
  /\ pc = "done"
  /\ Len(solutions) > 0
  /\ \E i \in DecoyPositions :
       /\ ValidFor(solution_flights[i], PUZZLE_CONFIG.friend_a)
       /\ solution_flights[i].date \notin PUZZLE_CONFIG.friend_b.available_dates

\* the ids of the flights at the given places of the iteration of
\* generate_solution_flights for a destination
PlantedIds(destination, places) ==
  { solution_flights[10 * (k - 1) + p].id :
      k \in { n \in 1..Len(PUZZLE_CONFIG.solution_destinations) :
                PUZZLE_CONFIG.solution_destinations[n].airport = destination },
      p \in places }

\* C26: no solution over the finished catalog pairs a flight of
\* generate_solution_flights with a flight of generate_interest_flights or
\* generate_filler_flights: the user_1 flight is one of the 2 shared flights and
\* the user_2 flight one of the 4 agent-B-valid planted flights of the destination.
C26_SolutionsArePlanted ==
  pc = "done" =>
    \A k \in 1..Len(solutions) :
      LET sol == solutions[k] IN
      /\ sol.user_1_flight.id \in PlantedIds(sol.destination, 1..2)
      /\ sol.user_2_flight.id \in PlantedIds(sol.destination, 1..4)

\* C26 witness: the solver has run over a catalog in which an interest flight to a
\* designated destination is valid for agent B on a date both agents are
\* available, unseen by the guard's list of solution flights.
C26_Witness ==
  /\ pc = "done"
  /\ Len(solutions) > 0
  /\ \E i \in 1..Len(interest_flights) :
       /\ interest_flights[i].destination
            \in { sol.airport : sol \in Range(PUZZLE_CONFIG.solution_destinations) }
       /\ ValidFor(interest_flights[i], PUZZLE_CONFIG.friend_b)
       /\ interest_flights[i].date \in PUZZLE_CONFIG.friend_a.available_dates

\* the first list is the beginning of the second
IsPrefix(s, t) == Len(s) <= Len(t) /\ SubSeq(t, 1, Len(s)) = s

\* what a step may do to the lists: the generators' lists only grow at the end, a
\* re-rolled attempt (a guard call that rejects) leaves its list as it was, an
\* accepted one adds one flight, and the catalog, the puzzle and the solutions
\* are left as they are once produced
C27_Step ==
  /\ IsPrefix(solution_flights, solution_flights')
  /\ IsPrefix(interest_flights, interest_flights')
  /\ IsPrefix(filler_flights, filler_flights')
  /\ (pc = "interest_attempt" /\ attempt' = attempt + 1) =>
       interest_flights' = interest_flights
  /\ pc = "interest_attempt" => Len(interest_flights') <= Len(interest_flights) + 1
  /\ (pc = "filler_attempt" /\ attempt' = attempt + 1) => filler_flights' = filler_flights
  /\ pc = "filler_attempt" => Len(filler_flights') <= Len(filler_flights) + 1
  /\ pc \in {"solve", "done", "analyzed"} =>
       /\ all_flights' = all_flights
       /\ puzzle' = puzzle
       /\ solution_flights' = solution_flights
       /\ interest_flights' = interest_flights
       /\ filler_flights' = filler_flights
  /\ pc \in {"done", "analyzed"} => solutions' = solutions

\* C27: the catalog is append-only and read-only downstream: the generators only
\* append, the guard leaves the accepted list unchanged, find_solutions leaves
\* the catalog and the puzzle unchanged, analyze_solutions leaves the solution
\* list unchanged.
C27_AppendOnly == [][C27_Step]_vars

\* C27 witness: the whole pipeline has run, with a rejected attempt on the way,
\* and the analysis counts the solutions of a catalog of full size.
C27_Witness ==
  /\ pc = "analyzed"
  /\ analysis.total_count = Len(solutions)
  /\ Len(solutions) > 0
  /\ all_flights = solution_flights \o interest_flights \o filler_flights
  /\ \E i \in 1..Len(interest_flights) : interest_flights[i].airline \in FallbackAirlines

\* the filler loop is at an attempt for a route that does not leave FCO
NonFcoAttempt == pc = "filler_attempt" /\ route.origin # "FCO"

\* on a route that does not leave FCO no attempt has been re-rolled, and the
\* guard answers False for every candidate the attempt can draw, against the
\* accepted list and against the other generators' lists
C28_FirstAttempt ==
  NonFcoAttempt =>
    /\ attempt = 0
    /\ \A d \in AttemptDraws(FillerDates,
                            get_airline_for_route(route.origin, route.destination), TRUE) :
         LET c == CandidateFlight(flight_id, route, flight_time, d) IN
         \A existing \in {filler_flights, interest_flights, solution_flights} :
           ~would_create_unintended_solution(c.origin, c.destination, c.date, c.price,
                                             c.airline, existing)

\* the step taken from such an attempt appends a candidate as drawn, not the
\* fallback, and returns to the head of the loop
C28_Step ==
  NonFcoAttempt =>
    /\ pc' = "filler"
    /\ filler_flights' # filler_flights
    /\ \E d \in AttemptDraws(FillerDates,
                            get_airline_for_route(route.origin, route.destination), TRUE) :
         filler_flights' =
           Append(filler_flights, CandidateFlight(flight_id, route, flight_time, d))

\* C28: would_create_unintended_solution returns False for every candidate whose
\* origin is not FCO, whatever its date, price, airline and the accepted list;
\* every filler flight with a non-FCO origin is accepted on its first attempt and
\* is never a fallback.
C28_NonFcoAccepted == []C28_FirstAttempt /\ [][C28_Step]_vars

\* C28 witness: a filler flight that does not leave FCO was appended with the
\* date, price and airline in both agents' overlap, which the guard rejects on
\* any flight from FCO.
C28_Witness ==
  \E i \in 1..Len(filler_flights) :
    /\ filler_flights[i].origin # "FCO"
    /\ GuardOverlap(filler_flights[i].date, filler_flights[i].price,
                    filler_flights[i].airline)

\* C29: in era 1990s, calculate_distance_multiplier gives a migration from a
\* MIDWEST or NORTHEAST origin to a SOUTH destination the rust-belt-to-sunbelt
\* multiplier 1.3 (13 tenths).
C29_RustBeltToSunbelt ==
  ( /\ call.function = "calculate_distance_multiplier"
    /\ call.era = "1990s"
    /\ get_region(call.origin) \in {"MIDWEST", "NORTHEAST"}
    /\ get_region(call.destination) = "SOUTH" )
  => call.result = 13

\* the origin and destination pairs of a list of records, in the list's order
PairsOf(records) ==
  [ k \in DOMAIN records |-> << records[k].origin, records[k].destination >> ]

\* the number of records of a list for a pair of states
RecordsFor(records, origin, destination) ==
  Cardinality({ k \in DOMAIN records :
                  records[k].origin = origin /\ records[k].destination = destination })

\* the pairs come in the order of the state list, origin first
InStateOrder(pairs) ==
  \A a, b \in DOMAIN pairs :
    a < b =>
      LET Index(s) == CHOOSE k \in DOMAIN states : states[k] = s
      IN  \/ Index(pairs[a][1]) < Index(pairs[b][1])
          \/ /\ pairs[a][1] = pairs[b][1]
             /\ Index(pairs[a][2]) < Index(pairs[b][2])

\* C30: generate_migration_data(era) returns exactly one absolute record and
\* one rate record for every ordered pair of distinct states that are both in
\* the era's population table, none for a state paired with itself or for a
\* pair with a state missing from the era's table, and the two lists hold the
\* same pairs in the same order.
C30_OneRecordPerPair ==
  ( call.function = "generate_migration_data" /\ call.returned ) =>
    /\ \A origin, destination \in MultiplierStates :
         LET expected == IF /\ origin # destination
                            /\ origin \in DOMAIN ALL_STATE_POPULATIONS[call.era]
                            /\ destination \in DOMAIN ALL_STATE_POPULATIONS[call.era]
                           THEN 1 ELSE 0
         IN  /\ RecordsFor(call.absolute_migrations, origin, destination) = expected
             /\ RecordsFor(call.rate_migrations, origin, destination) = expected
    /\ PairsOf(call.absolute_migrations) = PairsOf(call.rate_migrations)
    /\ InStateOrder(PairsOf(call.absolute_migrations))

\* the call for era 1960s has returned: NEVADA, which the 1960s table lacks,
\* has no record, and the pair (CALIFORNIA, TEXAS) has one in each list
C30_Witness ==
  /\ call.function = "generate_migration_data"
  /\ call.returned
  /\ call.era = "1960s"
  /\ Len(call.absolute_migrations) = 12
  /\ RecordsFor(call.rate_migrations, "CALIFORNIA", "TEXAS") = 1
  /\ RecordsFor(call.absolute_migrations, "NEVADA", "CALIFORNIA") = 0

====
